---- MODULE Spec2Model ----
(***************************************************************************)
(* Model of the media track inspection and remux pipeline of HanamiRIP-CN  *)
(* (apps/desktop/backend/src/services/media/mod.rs: parse_media_tracks,    *)
(* get_media_file_size, mix_media_tracks).                                 *)
(*                                                                         *)
(* Strings are sequences of characters.  Literals of the code that are     *)
(* never taken apart (flags, extensions, language tags, directory names)   *)
(* are written as one element; everything the code trims, lowercases or    *)
(* compares character by character is written one character per element.  *)
(***************************************************************************)
EXTENDS Integers, Sequences, FiniteSets, TLC

VARIABLES
  clock,   \* chrono::Utc::now().timestamp_millis()
  files,   \* regular files that exist on disk
  dirs,    \* directories that exist on disk
  build,   \* the build configuration: cfg!(target_os = "windows"), cfg!(debug_assertions)
  calls,   \* one record per invocation of mix_media_tracks
  media,   \* the media file under inspection: its length and what the analyzers print for it
  probe,   \* the invocation of parse_media_tracks
  sizing,  \* the invocation of get_media_file_size
  server,  \* the metadata server a paginated fetch talks to
  fetch,   \* the invocation of a paginated fetch
  torrent, \* TORRENT_API and the torrent commands in flight
  store,   \* the watchlist file and what the watchlist commands returned
  folders, \* the temp and final folder of a download and the finalize calls made
  tagging  \* the invocation of map_tags_to_official with each table

vars == <<clock, files, dirs, build, calls, media, probe, sizing, server, fetch,
          torrent, store, folders, tagging>>

\* the state of the inspection commands, which mix_media_tracks leaves alone
inspection == <<media, probe, sizing>>

\* the state of the other services, which the media commands leave alone
services == <<server, fetch, torrent, store, folders, tagging>>

\* the state of the media commands
mediaState == <<clock, files, dirs, calls, inspection>>

----------------------------------------------------------------------------
(* Bounds *)

MaxClock == 2

\* the longest request (number of raw selections) of SpecPlan and of SpecLang
MaxInputs == 3
MaxLangInputs == 2

\* the longest request of SpecGroup
MaxGroupInputs == 3

\* the longest request of SpecKinds
MaxKindInputs == 4

\* the most requests of one paginated fetch
MaxRequests == 4

\* the watchlist commands make at most this many saves
MaxSaves == 3

\* finalize_torrent_download is called at most this many times
MaxFinalizes == 3

\* the most tags of one subject
MaxTags == 3

\* the invocations of the command that may be in flight together
Calls == {"c1", "c2"}

----------------------------------------------------------------------------
(* Strings *)

\* char::is_whitespace, for the characters the model uses
WhiteSpace == {" ", "\t", "\n"}

RECURSIVE TrimStart(_)
TrimStart(s) ==
  IF s # <<>> /\ Head(s) \in WhiteSpace THEN TrimStart(Tail(s)) ELSE s

RECURSIVE TrimEnd(_)
TrimEnd(s) ==
  IF s # <<>> /\ s[Len(s)] \in WhiteSpace
    THEN TrimEnd(SubSeq(s, 1, Len(s) - 1))
    ELSE s

\* str::trim
Trim(s) == TrimEnd(TrimStart(s))

UpperCase ==
  <<"A", "B", "C", "D", "E", "F", "G", "H", "I", "J", "K", "L", "M",
    "N", "O", "P", "Q", "R", "S", "T", "U", "V", "W", "X", "Y", "Z">>
LowerCase ==
  <<"a", "b", "c", "d", "e", "f", "g", "h", "i", "j", "k", "l", "m",
    "n", "o", "p", "q", "r", "s", "t", "u", "v", "w", "x", "y", "z">>

LowerChar(ch) ==
  IF \E i \in 1..Len(UpperCase) : UpperCase[i] = ch
    THEN LowerCase[CHOOSE i \in 1..Len(UpperCase) : UpperCase[i] = ch]
    ELSE ch

\* str::to_lowercase
ToLowercase(s) == [i \in 1..Len(s) |-> LowerChar(s[i])]

RECURSIVE Join(_, _)
\* [String]::join
Join(list, sep) ==
  IF list = <<>> THEN <<>>
  ELSE IF Len(list) = 1 THEN list[1]
  ELSE list[1] \o sep \o Join(Tail(list), sep)

\* Option
None == <<>>
Some(x) == <<x>>

\* HashMap
EmptyMap == [x \in {} |-> <<>>]
MapInsert(m, k, v) == [x \in DOMAIN m \cup {k} |-> IF x = k THEN v ELSE m[x]]

kVideo == <<"v", "i", "d", "e", "o">>
kAudio == <<"a", "u", "d", "i", "o">>
kSubtitle == <<"s", "u", "b", "t", "i", "t", "l", "e">>

----------------------------------------------------------------------------
(* Paths *)

Slash == <<"/">>

RECURSIVE LastIndexOf(_, _)
\* position of the last occurrence of ch in s, 0 when there is none
LastIndexOf(s, ch) ==
  IF s = <<>> THEN 0
  ELSE IF s[Len(s)] = ch THEN Len(s)
  ELSE LastIndexOf(SubSeq(s, 1, Len(s) - 1), ch)

\* Path::file_name of a path without trailing separator
FileName(p) == SubSeq(p, LastIndexOf(p, "/") + 1, Len(p))

\* Path::extension: the part of the file name after its last dot, None when
\* there is no dot or the name starts with its only dot
PathExtension(p) ==
  LET name == FileName(p)
      dot == LastIndexOf(name, ".")
  IN IF dot <= 1 THEN None ELSE Some(SubSeq(name, dot + 1, Len(name)))

\* PathBuf::set_extension on a path that has a file name and no extension
SetExtension(p, ext) == IF FileName(p) = <<>> THEN p ELSE p \o <<".">> \o ext

\* Path::parent: None for the empty path, Some("") for a bare file name
PathParent(p) ==
  IF p = <<>> THEN None
  ELSE Some(SubSeq(p, 1, LastIndexOf(p, "/") - 1))

\* Path::join
PathJoin(p, name) == p \o Slash \o name

\* Path::exists
PathExists(p) == p \in files \/ p \in dirs

----------------------------------------------------------------------------
(* resolve_tool_path *)

ResourceDir == <<"resources">>
DevBin == PathJoin(PathJoin(<<"..">>, <<"public">>), <<"tools">>)
ResourceBin == PathJoin(ResourceDir, <<"bin">>)
Exe(name) == name \o <<".exe">>

ToolCandidates_AlwaysDev(name) ==
  (IF build.windows THEN <<PathJoin(ResourceBin, Exe(name))>> ELSE <<>>)
  \o <<PathJoin(ResourceBin, name)>>
  \o (IF build.windows THEN <<PathJoin(DevBin, Exe(name))>> ELSE <<>>)
  \o <<PathJoin(DevBin, name)>>

ToolCandidates(name) ==
  (IF build.windows THEN <<PathJoin(ResourceBin, Exe(name))>> ELSE <<>>)
  \o <<PathJoin(ResourceBin, name)>>
  \o (IF build.debug_assertions
        THEN (IF build.windows THEN <<PathJoin(DevBin, Exe(name))>> ELSE <<>>)
             \o <<PathJoin(DevBin, name)>>
        ELSE <<>>)

RECURSIVE FirstExisting(_)
FirstExisting(candidates) ==
  IF candidates = <<>> THEN None
  ELSE IF PathExists(Head(candidates)) THEN Some(Head(candidates))
  ELSE FirstExisting(Tail(candidates))

\* Ok(path) is Some(path), Err("未找到内置工具 ...") is None
ResolveToolPath(name) == FirstExisting(ToolCandidates(name))

Mkvmerge == <<"mkvmerge">>

----------------------------------------------------------------------------
(* mix_media_tracks: grouping of the raw inputs (lines 477-517) *)

TrimIds_KeepBlank(ids) == [i \in 1..Len(ids) |-> Trim(ids[i])]

RECURSIVE TrimIds(_)
\* .map(|id| id.trim()).filter(|id| !id.is_empty()).collect()
TrimIds(ids) ==
  IF ids = <<>> THEN <<>>
  ELSE LET id == Trim(Head(ids))
       IN (IF id = <<>> THEN <<>> ELSE <<id>>) \o TrimIds(Tail(ids))

Contains(list, x) == \E i \in 1..Len(list) : list[i] = x

PushUnique_All(list, ids) == list \o ids

RECURSIVE PushUnique(_, _)
\* for track_id in track_ids { if !entry.track_ids.contains(track_id) { push } }
PushUnique(list, ids) ==
  IF ids = <<>> THEN list
  ELSE PushUnique(IF Contains(list, Head(ids)) THEN list ELSE Append(list, Head(ids)),
                  Tail(ids))

\* for (track_id, lang) in input.track_langs { entry.track_langs.insert(track_id, lang) }
MergeLangs(into, from) ==
  [k \in DOMAIN into \cup DOMAIN from |-> IF k \in DOMAIN from THEN from[k] ELSE into[k]]

SourceMissing_NoExistsCheck(path) == path = <<>>

\* lines 480-485: path.is_empty() or !Path::new(path).exists()
SourceMissing(path) == path = <<>> \/ ~PathExists(path)

OtherSource_Never(entry, path) == FALSE

\* line 502: entry.path != path
OtherSource(entry, path) == entry.path # path

PlanErr(error, detail, i) ==
  [error |-> error, detail |-> detail, kind_inputs |-> EmptyMap, examined |-> i]

RECURSIVE GroupFrom(_, _, _)
\* the for loop over inputs from its i-th element on; examined is the number
\* of inputs the loop looked at
GroupFrom(inputs, i, kind_inputs) ==
  IF i > Len(inputs)
    THEN [error |-> "", detail |-> <<>>, kind_inputs |-> kind_inputs,
          examined |-> Len(inputs)]
  ELSE
    LET input == inputs[i]
        path == Trim(input.path)
    IN IF SourceMissing(path) THEN PlanErr("SourceMissing", path, i)
       ELSE
         LET track_ids == TrimIds(input.track_ids)
         IN IF track_ids = <<>> THEN GroupFrom(inputs, i + 1, kind_inputs)
            ELSE
              LET kind_lower == ToLowercase(input.kind)
                  entry == IF kind_lower \in DOMAIN kind_inputs
                             THEN kind_inputs[kind_lower]
                             ELSE [path |-> path, kind |-> kind_lower,
                                   track_ids |-> <<>>, track_langs |-> EmptyMap]
              IN IF OtherSource(entry, path)
                   THEN PlanErr("ConflictingSourceForKind", kind_lower, i)
                   ELSE GroupFrom(inputs, i + 1,
                          MapInsert(kind_inputs, kind_lower,
                            [entry EXCEPT
                               !.track_ids = PushUnique(@, track_ids),
                               !.track_langs = MergeLangs(@, input.track_langs)]))

PlanInputs_NoVideoCheck(inputs) == GroupFrom(inputs, 1, EmptyMap)

\* lines 477-517: the loop, then the check for a video entry
PlanInputs(inputs) ==
  LET grouped == GroupFrom(inputs, 1, EmptyMap)
  IN IF grouped.error # "" THEN grouped
     ELSE IF kVideo \notin DOMAIN grouped.kind_inputs
       THEN [grouped EXCEPT !.error = "MissingVideoTrack"]
     ELSE grouped

----------------------------------------------------------------------------
(* mix_media_tracks: the muxer command lines *)

LangForKind_Und(kind) == <<"und">>

\* lines 430-437
LangForKind(kind) ==
  CASE kind = kVideo -> <<"ja">>
    [] kind = kAudio -> <<"ja">>
    [] kind = kSubtitle -> <<"zh-Hans">>
    [] OTHER -> <<"und">>

TempExt(kind) ==
  CASE kind = kVideo -> <<"mkv">>
    [] kind = kAudio -> <<"mka">>
    [] kind = kSubtitle -> <<"mks">>
    [] OTHER -> <<"mkv">>

\* temp_root.join(format!("{kind}.{ext}"))
TempPath(temp_root, kind) == PathJoin(temp_root, kind \o <<".">> \o TempExt(kind))

SelectorArgs_OwnOnly(kind, input) ==
  << <<"--">> \o kind \o <<"-tracks">>, Join(input.track_ids, <<",">>) >>

SelectorArgs(kind, input) ==
  LET ids == Join(input.track_ids, <<",">>)
  IN CASE kind = kVideo ->
            << <<"--video-tracks">>, ids, <<"--audio-tracks">>, <<"-1">>,
               <<"--subtitle-tracks">>, <<"-1">> >>
       [] kind = kAudio ->
            << <<"--audio-tracks">>, ids, <<"--video-tracks">>, <<"-1">>,
               <<"--subtitle-tracks">>, <<"-1">> >>
       [] kind = kSubtitle ->
            << <<"--subtitle-tracks">>, ids, <<"--video-tracks">>, <<"-1">>,
               <<"--audio-tracks">>, <<"-1">> >>
       [] OTHER -> <<>>

\* custom_lang.unwrap_or(lang)
FinalLang(kind, input, track_id) ==
  IF track_id \in DOMAIN input.track_langs
    THEN input.track_langs[track_id]
    ELSE LangForKind(kind)

TrackArgs(kind, input, track_id) ==
  << <<"--track-name">>, track_id \o <<":">>,
     <<"--default-track-flag">>, track_id \o <<":", "yes">>,
     <<"--forced-display-flag">>, track_id \o <<":", "no">>,
     <<"--language">>, track_id \o <<":">> \o FinalLang(kind, input, track_id) >>

RECURSIVE AllTrackArgs(_, _, _)
AllTrackArgs(kind, input, ids) ==
  IF ids = <<>> THEN <<>>
  ELSE TrackArgs(kind, input, Head(ids)) \o AllTrackArgs(kind, input, Tail(ids))

\* build_temp: the argument vector handed to run_mkvmerge
BuildArgs(kind, input, temp_root) ==
  << <<"-o">>, TempPath(temp_root, kind) >>
  \o SelectorArgs(kind, input)
  \o AllTrackArgs(kind, input, input.track_ids)
  \o <<input.path>>

OptArg(opt) == IF opt = None THEN <<>> ELSE <<opt[1]>>

\* merge_args
MergeArgs(call) ==
  << <<"-o">>, call.output >>
  \o OptArg(call.video_temp) \o OptArg(call.audio_temp) \o OptArg(call.subtitle_temp)

----------------------------------------------------------------------------
(* mix_media_tracks: one invocation *)

\* The kinds Stage 1 looks up in kind_inputs, in the order of lines 598-612
Stage1Kinds == <<kVideo, kAudio, kSubtitle>>

AppDataDir == <<"appdata">>

\* app_data_dir().join("hanamirip-cn").join("mix-temp").join(timestamp_millis().to_string())
TempRoot(now) ==
  PathJoin(PathJoin(PathJoin(AppDataDir, <<"hanamirip-cn">>), <<"mix-temp">>),
           <<ToString(now)>>)

\* A call before its first statement.  runs, created, removed and returned
\* record what the call did: the muxer processes it spawned, the directories
\* its create_dir_all calls made, the remove_file calls it made, and the
\* values it returned.
NewCall(inputs, output_path) ==
  [pc |-> "enter", inputs |-> inputs, output_path |-> output_path,
   output |-> <<>>, mkvmerge_path |-> None, kind_inputs |-> EmptyMap,
   examined |-> 0, temp_root |-> None, temp_files |-> <<>>, k |-> 1,
   video_temp |-> None, audio_temp |-> None, subtitle_temp |-> None,
   runs |-> <<>>, created |-> {}, removed |-> <<>>, returned |-> <<>>]

\* a command that is never invoked
NoCall ==
  [NewCall(<<>>, <<>>) EXCEPT !.pc = "idle"]

Ok(value) == [tag |-> "Ok", error |-> "", value |-> value]
Err(error, detail) == [tag |-> "Err", error |-> error, value |-> detail]

Fail_KeepGoing(call, error, detail) ==
  [call EXCEPT !.returned = Append(@, Err(error, detail))]

\* return Err(..) and the ? operator
Fail(call, error, detail) ==
  [call EXCEPT !.pc = "failed", !.returned = Append(@, Err(error, detail))]

Running(call) == call.runs # <<>> /\ call.runs[Len(call.runs)].status = "running"

\* the status of the last muxer process becomes known
Settle(call, status) == [call EXCEPT !.runs[Len(call.runs)].status = status]

CheckInputs_NoEmptyCheck(c) ==
  /\ calls[c].pc = "enter"
  /\ calls' = [calls EXCEPT ![c].pc = "mkdir", ![c].output = calls[c].output_path]
  /\ UNCHANGED <<clock, files, dirs, build, inspection, services>>

\* lines 414-421
CheckInputs(c) ==
  /\ calls[c].pc = "enter"
  /\ calls' = [calls EXCEPT ![c] =
       IF @.inputs = <<>> THEN Fail(@, "NoTracksProvided", <<>>)
       ELSE [@ EXCEPT
               !.pc = "mkdir",
               !.output = IF PathExtension(calls[c].output_path) = None
                            THEN SetExtension(calls[c].output_path, <<"mkv">>)
                            ELSE calls[c].output_path]]
  /\ UNCHANGED <<clock, files, dirs, build, inspection, services>>

\* lines 422-426: create_dir_all of the output's parent may fail; the parent
\* "" of a bare file name does not exist and create_dir_all("") creates nothing
PrepareOutput(c) ==
  /\ calls[c].pc = "mkdir"
  /\ LET parent == PathParent(calls[c].output)
     IN IF parent = None \/ PathExists(parent[1])
          THEN /\ calls' = [calls EXCEPT ![c].pc = "tool"]
               /\ UNCHANGED dirs
          ELSE \E created \in BOOLEAN :
                 IF created
                   THEN /\ calls' = [calls EXCEPT
                                      ![c].pc = "tool",
                                      ![c].created = IF parent[1] = <<>> THEN @
                                                     ELSE @ \cup {parent[1]}]
                        /\ dirs' = IF parent[1] = <<>> THEN dirs ELSE dirs \cup {parent[1]}
                   ELSE /\ parent[1] # <<>>
                        /\ calls' = [calls EXCEPT ![c] = Fail(@, "FilesystemError", parent[1])]
                        /\ UNCHANGED dirs
  /\ UNCHANGED <<clock, files, build, inspection, services>>

\* line 428
LocateMkvmerge(c) ==
  /\ calls[c].pc = "tool"
  /\ LET found == ResolveToolPath(Mkvmerge)
     IN calls' = [calls EXCEPT ![c] =
          IF found = None THEN Fail(@, "ToolNotFound", Mkvmerge)
          ELSE [@ EXCEPT !.pc = "plan", !.mkvmerge_path = found]]
  /\ UNCHANGED <<clock, files, dirs, build, inspection, services>>

\* lines 477-517
GroupInputs(c) ==
  /\ calls[c].pc = "plan"
  /\ LET plan == PlanInputs(calls[c].inputs)
     IN calls' = [calls EXCEPT ![c] =
          IF plan.error # ""
            THEN [Fail(@, plan.error, plan.detail) EXCEPT !.examined = plan.examined]
            ELSE [@ EXCEPT !.pc = "temp", !.kind_inputs = plan.kind_inputs,
                           !.examined = plan.examined]]
  /\ UNCHANGED <<clock, files, dirs, build, inspection, services>>

\* lines 519-526: create_dir_all succeeds on a directory that already exists
CreateTempRoot(c) ==
  /\ calls[c].pc = "temp"
  /\ LET temp_root == TempRoot(clock)
     IN \E created \in BOOLEAN :
          IF created
            THEN /\ calls' = [calls EXCEPT ![c].pc = "stage1",
                                           ![c].temp_root = Some(temp_root),
                                           ![c].created = @ \cup {temp_root}]
                 /\ dirs' = dirs \cup {temp_root}
            ELSE /\ calls' = [calls EXCEPT ![c] = Fail(@, "FilesystemError", temp_root)]
                 /\ UNCHANGED dirs
  /\ UNCHANGED <<clock, files, build, inspection, services>>

NextStage1_SkipRest(call) == [call EXCEPT !.pc = "combine"]

\* lines 598-612: on to the next kind, and after the last one to the combine
NextStage1(call) ==
  IF call.k < Len(Stage1Kinds) THEN [call EXCEPT !.k = @ + 1]
  ELSE [call EXCEPT !.pc = "combine"]

\* lines 598, 603, 608: kind_inputs.get(kind) is None
SkipBuild(c) ==
  /\ calls[c].pc = "stage1"
  /\ Stage1Kinds[calls[c].k] \notin DOMAIN calls[c].kind_inputs
  /\ calls' = [calls EXCEPT ![c] = NextStage1(@)]
  /\ UNCHANGED <<clock, files, dirs, build, inspection, services>>

\* build_temp up to Command::output() of run_mkvmerge: the spawn may fail
SpawnBuild(c) ==
  /\ calls[c].pc = "stage1"
  /\ ~Running(calls[c])
  /\ LET kind == Stage1Kinds[calls[c].k]
     IN /\ kind \in DOMAIN calls[c].kind_inputs
        /\ LET args == BuildArgs(kind, calls[c].kind_inputs[kind], calls[c].temp_root[1])
               run == [stage |-> kind, program |-> calls[c].mkvmerge_path[1],
                       args |-> args, status |-> "running"]
           IN \E spawned \in BOOLEAN :
                calls' = [calls EXCEPT ![c] =
                  IF spawned THEN [@ EXCEPT !.runs = Append(@, run)]
                  ELSE Fail([@ EXCEPT !.runs = Append(@, [run EXCEPT !.status = "spawn_failed"])],
                            "ToolSpawnFailed", Mkvmerge)]
  /\ UNCHANGED <<clock, files, dirs, build, inspection, services>>

SetTemp(call, kind, path) ==
  CASE kind = kVideo -> [call EXCEPT !.video_temp = Some(path)]
    [] kind = kAudio -> [call EXCEPT !.audio_temp = Some(path)]
    [] kind = kSubtitle -> [call EXCEPT !.subtitle_temp = Some(path)]

Quote == "\""
Backslash == "\\"

RECURSIVE EscapeQuotes(_)
\* arg.replace('"', "\\\"")
EscapeQuotes(arg) ==
  IF arg = <<>> THEN <<>>
  ELSE (IF Head(arg) = Quote THEN <<Backslash, Quote>> ELSE <<Head(arg)>>)
       \o EscapeQuotes(Tail(arg))

\* lines 439-445
FormatArg(arg) ==
  IF \E i \in 1..Len(arg) : arg[i] \in {" ", "\t", Quote}
    THEN <<Quote>> \o EscapeQuotes(arg) \o <<Quote>>
    ELSE arg

\* lines 447-454
BuildCmdline(args) ==
  Join(<<FormatArg(Mkvmerge)>> \o [i \in 1..Len(args) |-> FormatArg(args[i])], <<" ">>)

\* the muxer of a Stage 1 build exits: on status zero it has written the
\* artifact and lines 600-601 register it
ExitBuild(c) ==
  /\ calls[c].pc = "stage1"
  /\ Running(calls[c])
  /\ LET kind == Stage1Kinds[calls[c].k]
         temp_path == TempPath(calls[c].temp_root[1], kind)
     IN \E success \in BOOLEAN :
          IF success
            THEN /\ files' = files \cup {temp_path}
                 /\ calls' = [calls EXCEPT ![c] =
                      NextStage1(SetTemp([Settle(@, "ok") EXCEPT
                                            !.temp_files = Append(@, temp_path)],
                                         kind, temp_path))]
            ELSE /\ calls' = [calls EXCEPT ![c] =
                      Fail(Settle(@, "exit_nonzero"), "ToolExitedNonZero",
                           BuildCmdline(calls[c].runs[Len(calls[c].runs)].args))]
                 /\ UNCHANGED files
  /\ UNCHANGED <<clock, dirs, build, inspection, services>>

\* lines 614-628 up to Command::output()
SpawnCombine(c) ==
  /\ calls[c].pc = "combine"
  /\ ~Running(calls[c])
  /\ LET run == [stage |-> <<"combine">>, program |-> calls[c].mkvmerge_path[1],
                 args |-> MergeArgs(calls[c]), status |-> "running"]
     IN \E spawned \in BOOLEAN :
          calls' = [calls EXCEPT ![c] =
            IF spawned THEN [@ EXCEPT !.runs = Append(@, run)]
            ELSE Fail([@ EXCEPT !.runs = Append(@, [run EXCEPT !.status = "spawn_failed"])],
                      "ToolSpawnFailed", Mkvmerge)]
  /\ UNCHANGED <<clock, files, dirs, build, inspection, services>>

\* the combining muxer exits: on status zero it has written the output
ExitCombine(c) ==
  /\ calls[c].pc = "combine"
  /\ Running(calls[c])
  /\ \E success \in BOOLEAN :
       IF success
         THEN /\ files' = files \cup {calls[c].output}
              /\ calls' = [calls EXCEPT ![c] = [Settle(@, "ok") EXCEPT !.pc = "cleanup"]]
         ELSE /\ calls' = [calls EXCEPT ![c] =
                   Fail(Settle(@, "exit_nonzero"), "ToolExitedNonZero",
                        BuildCmdline(calls[c].runs[Len(calls[c].runs)].args))]
              /\ UNCHANGED files
  /\ UNCHANGED <<clock, dirs, build, inspection, services>>

\* lines 630-632: one iteration; remove_file fails on a file that is not
\* there and may fail on one that is, and the result is dropped
RemoveTemp(c) ==
  /\ calls[c].pc = "cleanup"
  /\ Len(calls[c].removed) < Len(calls[c].temp_files)
  /\ LET path == calls[c].temp_files[Len(calls[c].removed) + 1]
     IN \E removed \in BOOLEAN :
          /\ removed => path \in files
          /\ files' = IF removed THEN files \ {path} ELSE files
          /\ calls' = [calls EXCEPT ![c].removed =
                         Append(@, [path |-> path, removed |-> removed])]
  /\ UNCHANGED <<clock, dirs, build, inspection, services>>

ReturnOutput_FailOnLeftover(c) ==
  /\ calls[c].pc = "cleanup"
  /\ Len(calls[c].removed) = Len(calls[c].temp_files)
  /\ calls' = [calls EXCEPT ![c] =
       IF \E i \in 1..Len(@.removed) : ~calls[c].removed[i].removed
         THEN Fail(@, "FilesystemError", <<>>)
         ELSE [@ EXCEPT !.pc = "done", !.returned = Append(@, Ok(calls[c].output))]]
  /\ UNCHANGED <<clock, files, dirs, build, inspection, services>>

\* line 634
ReturnOutput(c) ==
  /\ calls[c].pc = "cleanup"
  /\ Len(calls[c].removed) = Len(calls[c].temp_files)
  /\ calls' = [calls EXCEPT ![c].pc = "done",
                            ![c].returned = Append(@, Ok(calls[c].output))]
  /\ UNCHANGED <<clock, files, dirs, build, inspection, services>>

\* a millisecond passes
Tick ==
  /\ clock < MaxClock
  /\ clock' = clock + 1
  /\ UNCHANGED <<files, dirs, build, calls, inspection, services>>

Next ==
  \/ Tick
  \/ \E c \in Calls :
       \/ CheckInputs(c)
       \/ PrepareOutput(c)
       \/ LocateMkvmerge(c)
       \/ GroupInputs(c)
       \/ CreateTempRoot(c)
       \/ SkipBuild(c)
       \/ SpawnBuild(c)
       \/ ExitBuild(c)
       \/ SpawnCombine(c)
       \/ ExitCombine(c)
       \/ RemoveTemp(c)
       \/ ReturnOutput(c)

----------------------------------------------------------------------------
(* format_bytes_readable *)

\* A u64 is written in base 1024, least significant digit first, so that
\* the f64 divisions by 1024.0 are exact shifts.  The model keeps to values
\* below 2^53, which `bytes as f64` converts exactly.
UNITS == <<"B", "KB", "MB", "GB", "TB">>

AtLeast1024_Above(whole) ==
  (\E i \in 3..Len(whole) : whole[i] # 0) \/ (Len(whole) >= 2 /\ whole[2] > 1)

\* size >= 1024.0
AtLeast1024(whole) == \E i \in 2..Len(whole) : whole[i] # 0

RECURSIVE Divide(_, _, _)
\* the while loop: size is whole + frac, with the digits of frac below the point
Divide(whole, frac, idx) ==
  IF AtLeast1024(whole) /\ idx < Len(UNITS) - 1
    THEN Divide(Tail(whole), <<Head(whole)>> \o frac, idx + 1)
    ELSE [whole |-> whole, frac |-> frac, idx |-> idx]

RECURSIVE WholeValue(_)
WholeValue(whole) ==
  IF whole = <<>> THEN 0 ELSE Head(whole) + 1024 * WholeValue(Tail(whole))

RECURSIVE Times100(_)
\* frac * 100 for the digits of frac, most significant first: the part before
\* the point (carry) and the digits that stay below it (rest)
Times100(frac) ==
  IF frac = <<>> THEN [carry |-> 0, rest |-> <<>>]
  ELSE LET lower == Times100(Tail(frac))
           v == Head(frac) * 100 + lower.carry
       IN [carry |-> v \div 1024, rest |-> <<v % 1024>> \o lower.rest]

TwoDigits(n) == IF n < 10 THEN "0" \o ToString(n) ELSE ToString(n)

\* format!("{:.2}", size): the exact value rounded to two decimals, a tie to
\* the even digit
Fixed2(whole, frac) ==
  LET scaled == Times100(frac)
      top == IF scaled.rest = <<>> THEN 0 ELSE Head(scaled.rest)
      below == \E i \in 2..Len(scaled.rest) : scaled.rest[i] # 0
      up == \/ top > 512
            \/ top = 512 /\ below
            \/ top = 512 /\ ~below /\ scaled.carry % 2 = 1
      hundredths == WholeValue(whole) * 100 + scaled.carry + (IF up THEN 1 ELSE 0)
  IN ToString(hundredths \div 100) \o "." \o TwoDigits(hundredths % 100)

FormatBytesReadable(bytes) ==
  LET size == Divide(bytes, <<>>, 0)
  IN IF size.idx = 0 THEN ToString(WholeValue(bytes)) \o " " \o UNITS[size.idx + 1]
     ELSE Fixed2(size.whole, size.frac) \o " " \o UNITS[size.idx + 1]

----------------------------------------------------------------------------
(* map_language_name *)

StartsWith(s, prefix) ==
  Len(s) >= Len(prefix) /\ SubSeq(s, 1, Len(prefix)) = prefix

\* the display names of lines 165-179, in English
LanguageTable ==
  << << { <<"j","p","n">>, <<"j","a">> }, "Japanese" >>,
     << { <<"e","n","g">>, <<"e","n">> }, "English" >>,
     << { <<"c","h","i">>, <<"z","h","o">>, <<"z","h">> }, "Chinese" >>,
     << { <<"c","h","s">>, <<"z","h","-","c","n">>, <<"c","m","n">> }, "Simplified Chinese" >>,
     << { <<"c","h","t">>, <<"z","h","-","t","w">> }, "Traditional Chinese" >>,
     << { <<"k","o","r">>, <<"k","o">> }, "Korean" >>,
     << { <<"f","r","a">>, <<"f","r">> }, "French" >>,
     << { <<"d","e","u">>, <<"g","e","r">>, <<"d","e">> }, "German" >>,
     << { <<"s","p","a">>, <<"e","s">> }, "Spanish" >> >>

MapLanguageName_NoTrim(code) ==
  IF \E i \in 1..Len(LanguageTable) : ToLowercase(code) \in LanguageTable[i][1]
    THEN Some(LanguageTable[CHOOSE i \in 1..Len(LanguageTable) :
                              ToLowercase(code) \in LanguageTable[i][1]][2])
    ELSE None

MapLanguageName(code) ==
  LET normalized == ToLowercase(Trim(code))
      name == IF \E i \in 1..Len(LanguageTable) : normalized \in LanguageTable[i][1]
                THEN LanguageTable[CHOOSE i \in 1..Len(LanguageTable) :
                                     normalized \in LanguageTable[i][1]][2]
                ELSE ""
  IN IF StartsWith(normalized, <<"z","h","-","h","a","n","s">>)
       THEN Some("Simplified Chinese")
     ELSE IF \/ StartsWith(normalized, <<"z","h","-","h","a","n","t">>)
             \/ StartsWith(normalized, <<"z","h","-","h","k">>)
             \/ StartsWith(normalized, <<"z","h","-","m","o">>)
       THEN Some("Traditional Chinese")
     ELSE IF name = "" THEN None ELSE Some(name)

----------------------------------------------------------------------------
(* get_media_file_size *)

\* media is the file the inspection commands are asked about: its path, its
\* length (when the path is in files) and, for each analyzer, the Output the
\* analyzer process gives for it: status.success(), stdout as the report it
\* decodes to (None when serde_json cannot decode it) and the bytes of stderr.

NewSizing(path) == [pc |-> "enter", path |-> path, returned |-> <<>>]

\* lines 403-406: fs::metadata fails on a path that does not exist
GetMediaFileSize ==
  /\ sizing.pc = "enter"
  /\ sizing.path = media.path
  /\ sizing' =
       IF sizing.path \in files
         THEN [sizing EXCEPT !.pc = "done",
                             !.returned = Append(@, Ok(Some(FormatBytesReadable(media.len))))]
         ELSE [sizing EXCEPT !.pc = "failed",
                             !.returned = Append(@, Err("FilesystemError", sizing.path))]
  /\ UNCHANGED <<clock, files, dirs, build, calls, media, probe, services>>

----------------------------------------------------------------------------
(* parse_media_tracks: the normalisation of the two reports *)

Or(a, b) == IF a # None THEN a ELSE b

\* Option::and_then(map_language_name)
LanguageNameOf(lang) == IF lang = None THEN None ELSE MapLanguageName(lang[1])

kSubtitles == kSubtitle \o <<"s">>

NoProperties ==
  [language |-> None, language_ietf |-> None, track_name |-> None,
   default_track |-> None, forced_track |-> None, codec_name |-> None,
   codec_id |-> None, encoding |-> None]

\* lines 301-306
MkvmergeCodec(track, props) ==
  LET codec == Or(Or(props.codec_name, track.codec), props.codec_id)
  IN IF codec = None THEN "unknown" ELSE codec[1]

\* lines 276-282
MkvmergeKeeps(track, kind_lower) ==
  LET track_type == IF track.type = None THEN <<>> ELSE track.type[1]
  IN IF kind_lower = kSubtitle
       THEN track_type = kSubtitles \/ track_type = kSubtitle
       ELSE track_type = kind_lower

\* lines 283-320, the attributes left out
MkvmergeTrackInfo(track, container, file_size) ==
  LET props == IF track.properties = None THEN NoProperties ELSE track.properties[1]
      lang == Or(props.language_ietf, props.language)
  IN [track_id |-> ToString(track.id),
      codec |-> MkvmergeCodec(track, props),
      lang |-> lang,
      language_name |-> LanguageNameOf(lang),
      track_name |-> props.track_name,
      is_default |-> props.default_track,
      is_forced |-> props.forced_track,
      charset |-> props.encoding,
      container |-> container,
      file_size |-> file_size]

\* lines 261-323
MkvmergeTracks(parsed, kind_lower) ==
  LET container == IF parsed.container = None THEN None ELSE parsed.container[1].type
      size == IF parsed.container = None \/ parsed.container[1].properties = None
                THEN None
                ELSE parsed.container[1].properties[1].file_size
      file_size == IF size = None THEN None ELSE Some(FormatBytesReadable(size[1]))
      tracks == IF parsed.tracks = None THEN <<>> ELSE parsed.tracks[1]
      kept == SelectSeq(tracks, LAMBDA track : MkvmergeKeeps(track, kind_lower))
  IN [i \in 1..Len(kept) |-> MkvmergeTrackInfo(kept[i], container, file_size)]

Digits == <<"0", "1", "2", "3", "4", "5", "6", "7", "8", "9">>

RECURSIVE DecimalValue(_)
DecimalValue(s) ==
  IF s = <<>> THEN 0
  ELSE 10 * DecimalValue(SubSeq(s, 1, Len(s) - 1))
       + (CHOOSE d \in 0..9 : Digits[d + 1] = s[Len(s)])

RECURSIVE ToBase1024(_)
ToBase1024(n) == IF n < 1024 THEN <<n>> ELSE <<n % 1024>> \o ToBase1024(n \div 1024)

\* str::parse::<u64>().ok() of a string of at most nine characters: an
\* optional plus sign and at least one digit
ParseU64(s) ==
  LET digits == IF s # <<>> /\ Head(s) = "+" THEN Tail(s) ELSE s
  IN IF digits # <<>> /\ \A i \in 1..Len(digits) : \E d \in 1..10 : Digits[d] = digits[i]
       THEN Some(ToBase1024(DecimalValue(digits)))
       ELSE None

NoTags == [language |-> None, title |-> None, encoding |-> None, charset |-> None]

\* lines 372-375
FfprobeCodec(stream) ==
  IF stream.codec_name = None THEN "unknown" ELSE stream.codec_name[1]

\* lines 364-396, the attributes left out
FfprobeTrackInfo(stream, container, file_size) ==
  LET tags == IF stream.tags = None THEN NoTags ELSE stream.tags[1]
      disposition == IF stream.disposition = None
                       THEN [default |-> None, forced |-> None]
                       ELSE stream.disposition[1]
      flag(v) == IF v = None THEN None ELSE Some(v[1] = 1)
  IN [track_id |-> ToString(IF stream.index = None THEN 0 ELSE stream.index[1]),
      codec |-> FfprobeCodec(stream),
      lang |-> tags.language,
      language_name |-> LanguageNameOf(tags.language),
      track_name |-> tags.title,
      is_default |-> flag(disposition.default),
      is_forced |-> flag(disposition.forced),
      charset |-> Or(tags.charset, tags.encoding),
      container |-> container,
      file_size |-> file_size]

\* lines 349-399
FfprobeTracks(parsed, kind_lower) ==
  LET container == IF parsed.format = None THEN None ELSE parsed.format[1].format_name
      size == IF parsed.format = None \/ parsed.format[1].size = None
                THEN None
                ELSE ParseU64(parsed.format[1].size[1])
      file_size == IF size = None THEN None ELSE Some(FormatBytesReadable(size[1]))
      streams == IF parsed.streams = None THEN <<>> ELSE parsed.streams[1]
      kept == SelectSeq(streams, LAMBDA stream : stream.codec_type = Some(kind_lower))
  IN [i \in 1..Len(kept) |-> FfprobeTrackInfo(kept[i], container, file_size)]

----------------------------------------------------------------------------
(* parse_media_tracks: one invocation *)

Ffprobe == <<"ffprobe">>

MatroskaExtensions == { <<"m", "k", "v">>, <<"m", "k", "a">>, <<"m", "k", "s">> }

AnalyzerFor_AnyCaseOff(path) ==
  IF PathExtension(path) # None /\ PathExtension(path)[1] \in MatroskaExtensions
    THEN Mkvmerge ELSE Ffprobe

\* lines 239-245
AnalyzerFor(path) ==
  LET ext == ToLowercase(IF PathExtension(path) = None THEN <<>> ELSE PathExtension(path)[1])
  IN IF ext \in MatroskaExtensions THEN Mkvmerge ELSE Ffprobe

\* lines 248 and 328-336
AnalyzerArgs(tool, path) ==
  IF tool = Mkvmerge THEN << <<"-J">>, path >>
  ELSE << <<"-v">>, <<"error">>, <<"-print_format">>, <<"json">>,
          <<"-show_format">>, <<"-show_streams">>, path >>

InvalidByte == "\\xFF"
Replacement == "U+FFFD"

\* String::from_utf8_lossy
FromUtf8Lossy(bytes) ==
  [i \in 1..Len(bytes) |-> IF bytes[i] = InvalidByte THEN Replacement ELSE bytes[i]]

NewProbe(path, kind) ==
  [pc |-> "enter", path |-> path, kind |-> kind, runs |-> <<>>, returned |-> <<>>]

FailProbe_Retry(call, error, detail) ==
  [call EXCEPT !.pc = "enter", !.returned = Append(@, Err(error, detail))]

\* the ? operator and return Err(..)
FailProbe(call, error, detail) ==
  [call EXCEPT !.pc = "failed", !.returned = Append(@, Err(error, detail))]

\* lines 238-251 and 326-339, up to the await: the analyzer is chosen,
\* located and spawned
SpawnAnalyzer ==
  /\ probe.pc = "enter"
  /\ LET tool == AnalyzerFor(probe.path)
         found == ResolveToolPath(tool)
         run == [tool |-> tool, program |-> found[1], args |-> AnalyzerArgs(tool, probe.path),
                 status |-> "running"]
     IN IF found = None
          THEN probe' = FailProbe(probe, "ToolNotFound", <<tool>>)
          ELSE \E spawned \in BOOLEAN :
                 probe' =
                   IF spawned THEN [probe EXCEPT !.pc = "await", !.runs = Append(@, run)]
                   ELSE FailProbe([probe EXCEPT
                                     !.runs = Append(@, [run EXCEPT !.status = "spawn_failed"])],
                                  "ToolSpawnFailed", <<tool>>)
  /\ UNCHANGED <<clock, files, dirs, build, calls, media, sizing, services>>

\* lines 253-323 and 341-399: the analyzer has exited
ExitAnalyzer ==
  /\ probe.pc = "await"
  /\ LET tool == probe.runs[Len(probe.runs)].tool
         output == IF tool = Mkvmerge THEN media.mkvmerge ELSE media.ffprobe
         kind_lower == ToLowercase(probe.kind)
     IN probe' =
          IF ~output.success
            THEN FailProbe([probe EXCEPT !.runs[Len(probe.runs)].status = "exit_nonzero"],
                           "ToolExitedNonZero", <<tool, FromUtf8Lossy(output.stderr)>>)
          ELSE IF output.stdout = None
            THEN FailProbe([probe EXCEPT !.runs[Len(probe.runs)].status = "ok"],
                           "OutputParseFailed", <<tool>>)
          ELSE [probe EXCEPT
                  !.pc = "done",
                  !.runs[Len(probe.runs)].status = "ok",
                  !.returned = Append(@,
                     Ok([tracks |-> IF tool = Mkvmerge
                                      THEN MkvmergeTracks(output.stdout[1], kind_lower)
                                      ELSE FfprobeTracks(output.stdout[1], kind_lower)]))]
  /\ UNCHANGED <<clock, files, dirs, build, calls, media, sizing, services>>

NextInspect ==
  \/ SpawnAnalyzer
  \/ ExitAnalyzer
  \/ GetMediaFileSize

----------------------------------------------------------------------------
(* u32 *)

\* A u32 is written as its two 16-bit halves, the low half first.
Half == 65536

U32(n) == <<n % Half, n \div Half>>

MaxU32 == <<Half - 1, Half - 1>>

\* a + b in u32: the wrapped sum and whether it overflowed
AddU32(a, b) ==
  LET low == a[1] + b[1]
      high == a[2] + b[2] + low \div Half
  IN [value |-> <<low % Half, high % Half>>, overflow |-> high >= Half]

LessU32(a, b) == a[2] < b[2] \/ (a[2] = b[2] /\ a[1] < b[1])

\* Ord::max
MaxOfU32(a, b) == IF LessU32(a, b) THEN b ELSE a

----------------------------------------------------------------------------
(* fetch_month_subjects, get_subject_aired_count_impl: the paginated loops *)

\* server is the metadata server.  A paged server holds total items and
\* answers a request for offset with the items from offset on, page_size of
\* them at most, reporting page_size as the limit; any other server reports
\* its total and answers what it likes.  An item is its position and
\* whether is_aired holds of it.

\* let limit = 50u32
FetchLimit == U32(50)

NewFetch(command) ==
  [pc |-> "request", command |-> command, offset |-> U32(0), items |-> <<>>,
   aired_count |-> 0, total_count |-> U32(0), log |-> <<>>, returned |-> <<>>]

\* a response with status 2xx that decodes to a page
Page(total, limit, data) ==
  [failure |-> "", total |-> total, limit |-> limit, data |-> data]

\* send() fails, the status is not a success, or the body does not decode
NoPage(failure) == [failure |-> failure, total |-> U32(0), limit |-> U32(0), data |-> <<>>]

Item(position) == [id |-> position, aired |-> TRUE]

\* the items of a paged server from offset on, page_size at most
PageOf(offset) ==
  IF offset[2] # 0 \/ offset[1] >= server.total[1] THEN <<>>
  ELSE LET first == offset[1]
           last == IF first + server.page_size < server.total[1]
                     THEN first + server.page_size ELSE server.total[1]
       IN [i \in 1..(last - first) |-> Item(first + i - 1)]

AnyLimits == { U32(0), U32(20), U32(50), U32(70), <<Half - 50, Half - 1>>, MaxU32 }
AnyPages == { <<>>, << Item(0) >>, << [id |-> 1, aired |-> FALSE] >> }

\* what the server may answer to the request for fetch.offset
Responses ==
  IF server.kind = "paged"
    THEN { Page(server.total, U32(server.page_size), PageOf(fetch.offset)) }
    ELSE { NoPage(failure) : failure \in {"send", "status", "decode"} }
         \cup { Page(server.total, limit, data) : limit \in AnyLimits, data \in AnyPages }

CountAired(data) == Cardinality({ i \in 1..Len(data) : data[i].aired })

\* Ok(items) of fetch_month_subjects, Ok(SubjectAiredResponse {..}) of
\* get_subject_aired_count_impl
FetchResult(call) ==
  IF call.command = "month" THEN Ok([items |-> call.items])
  ELSE Ok([aired_count |-> call.aired_count, total_count |-> call.total_count])

\* offset += payload.limit.max(limit)
Advance(offset, reported) == AddU32(offset, MaxOfU32(reported, FetchLimit))

\* One iteration of the loop, from the request to the break or to the end
\* of the body.  The addition that overflows panics in a build with overflow
\* checks (the default where debug assertions are on) and wraps in one
\* without.
FetchPage ==
  /\ fetch.pc = "request"
  /\ Len(fetch.log) < MaxRequests
  /\ \E response \in Responses :
       LET logged == [fetch EXCEPT !.log = Append(@, [offset |-> fetch.offset,
                                                       response |-> response])]
           counted == IF fetch.command = "aired"
                        THEN [logged EXCEPT
                                !.total_count = IF @ = U32(0) THEN response.total ELSE @,
                                !.aired_count = @ + CountAired(response.data)]
                        ELSE logged
           extended == IF fetch.command = "month"
                         THEN [counted EXCEPT !.items = @ \o response.data]
                         ELSE counted
           sum == Advance(fetch.offset, response.limit)
           advanced == [extended EXCEPT !.offset = sum.value]
       IN fetch' =
            IF response.failure # ""
              THEN [logged EXCEPT !.pc = "failed",
                                  !.returned = Append(@, Err("RequestFailed", response.failure))]
            ELSE IF response.data = <<>>
              THEN [counted EXCEPT !.pc = "done", !.returned = Append(@, FetchResult(counted))]
            ELSE IF sum.overflow /\ build.debug_assertions
              THEN [extended EXCEPT !.pc = "panicked"]
            ELSE IF ~LessU32(sum.value, response.total)
              THEN [advanced EXCEPT !.pc = "done", !.returned = Append(@, FetchResult(advanced))]
            ELSE advanced
  /\ UNCHANGED <<mediaState, build, server, torrent, store, folders, tagging>>

NextFetch == FetchPage

----------------------------------------------------------------------------
(* torrent_api and the torrent commands *)

\* torrent is TORRENT_API and the commands: cell is the value of the
\* OnceCell, permit the permit of its semaphore ("free", the command that
\* holds it, or "closed" once the value is set), sessions the number of
\* sessions Session::new_with_opts has constructed, commands the commands.
\* get_or_try_init returns the value when it is set; otherwise it waits for
\* the permit, runs the initialiser, and on Ok sets the value and closes the
\* semaphore, on Err gives the permit back and returns the error.

TorrentCommands == {"t1", "t2", "t3"}
TorrentKinds == {"start", "status", "pause", "resume", "delete"}

\* app_data_dir().join("hanamirip-cn").join(TORRENT_OUTPUT_DIR)
TorrentBaseDir == PathJoin(PathJoin(AppDataDir, <<"hanamirip-cn">>), <<"downloads">>)

\* output_dir.join(".downloading").join(timestamp_millis().to_string())
DownloadTemp(output_dir, now) ==
  PathJoin(PathJoin(output_dir, <<".downloading">>), <<ToString(now)>>)

NewTorrentCommand(kind) ==
  [pc |-> "enter", kind |-> kind, attempted |-> FALSE, api |-> None, returned |-> <<>>]

NewTorrent(kinds) ==
  [cell |-> None, permit |-> "free", sessions |-> 0,
   commands |-> [c \in TorrentCommands |-> NewTorrentCommand(kinds[c])]]

FailTorrent(command, error) ==
  [command EXCEPT !.pc = "failed", !.returned = Append(@, Err(error, <<>>))]

\* line 68, the value is set: .map(Clone::clone)
UseSession(c) ==
  /\ torrent.commands[c].pc = "enter"
  /\ torrent.cell # None
  /\ torrent' = [torrent EXCEPT !.commands[c].pc = "engine",
                                 !.commands[c].api = torrent.cell]
  /\ UNCHANGED <<mediaState, build, server, fetch, store, folders, tagging>>

PermitFree_Always == TRUE

PermitFree == torrent.permit = "free"

\* lines 68-78: the permit is taken and the initialiser runs up to its
\* await; create_dir_all of the base directory may fail
BeginInit(c) ==
  /\ torrent.commands[c].pc = "enter"
  /\ torrent.cell = None
  /\ PermitFree
  /\ \E created \in BOOLEAN :
       IF created
         THEN /\ torrent' = [torrent EXCEPT !.permit = c,
                                            !.commands[c].pc = "session",
                                            !.commands[c].attempted = TRUE]
              /\ dirs' = dirs \cup {TorrentBaseDir}
         ELSE /\ torrent' = [torrent EXCEPT
                               !.commands[c] =
                                  FailTorrent([@ EXCEPT !.attempted = TRUE], "FilesystemError")]
              /\ UNCHANGED dirs
  /\ UNCHANGED <<clock, files, calls, inspection, build, server, fetch, store, folders,
                 tagging>>

\* lines 93-99: Session::new_with_opts has answered
FinishInit(c) ==
  /\ torrent.commands[c].pc = "session"
  /\ \E started \in BOOLEAN :
       torrent' =
         IF started
           THEN [torrent EXCEPT !.sessions = @ + 1,
                                !.cell = Some(torrent.sessions + 1),
                                !.permit = "closed",
                                !.commands[c].pc = "engine",
                                !.commands[c].api = Some(torrent.sessions + 1)]
           ELSE [torrent EXCEPT !.permit = "free",
                                !.commands[c] = FailTorrent(@, "SessionStartFailed")]
  /\ UNCHANGED <<mediaState, build, server, fetch, store, folders, tagging>>

\* the rest of a command: start_torrent_download creates its temp folder and
\* adds the torrent; the other commands call the engine once
EngineCall(c) ==
  /\ torrent.commands[c].pc = "engine"
  /\ \E made \in BOOLEAN, answered \in BOOLEAN :
       LET command == torrent.commands[c]
           temp_folder == DownloadTemp(<<"out">>, clock)
           mkdir == command.kind = "start"
       IN /\ dirs' = IF mkdir /\ made THEN dirs \cup {temp_folder} ELSE dirs
          /\ torrent' = [torrent EXCEPT !.commands[c] =
               IF mkdir /\ ~made THEN FailTorrent(command, "FilesystemError")
               ELSE IF ~answered THEN FailTorrent(command, "EngineError")
               ELSE [command EXCEPT !.pc = "done",
                                    !.returned = Append(@, Ok(command.kind))]]
  /\ UNCHANGED <<clock, files, calls, inspection, build, server, fetch, store, folders,
                 tagging>>

NextTorrent ==
  \E c \in TorrentCommands :
    \/ UseSession(c)
    \/ BeginInit(c)
    \/ FinishInit(c)
    \/ EngineCall(c)

----------------------------------------------------------------------------
(* list_tracked_subjects, save_tracked_subject: the watchlist file *)

\* TrackedSubject (lines 19-37): the id, the three flags, one text field and
\* one optional number; the other text and optional fields are stored as
\* name and rating are
TrackedSubject(id, name, watching, backlog, watched, rating) ==
  [id |-> id, name |-> name, watching |-> watching, backlog |-> backlog,
   watched |-> watched, rating |-> rating]

SubjectIds == {1, 2}
SubjectNames == {"x", "y"}
SubjectRatings == {None, Some("7.5")}
SubjectFlags == { <<FALSE, FALSE, FALSE>>, <<TRUE, FALSE, FALSE>>, <<FALSE, TRUE, TRUE>> }

Subjects ==
  { TrackedSubject(id, name, flags[1], flags[2], flags[3], rating) :
      id \in SubjectIds, name \in SubjectNames, flags \in SubjectFlags,
      rating \in SubjectRatings }

\* serde_json::to_string_pretty of one subject: a JSON object, here the text
\* of the value of each member
BoolText(b) == IF b THEN "true" ELSE "false"

ToJsonObject(subject) ==
  [id |-> ToString(subject.id),
   name |-> Quote \o subject.name \o Quote,
   watching |-> BoolText(subject.watching),
   backlog |-> BoolText(subject.backlog),
   watched |-> BoolText(subject.watched),
   rating |-> IF subject.rating = None THEN "null" ELSE subject.rating[1]]

\* serde_json::from_str of one object: the id is a number, the name a string,
\* the flags are booleans, the rating is null or a number
Numerals == 0..9
IsNumber(text) == \E n \in Numerals : ToString(n) = text
IsString(text) == \E name \in SubjectNames : Quote \o name \o Quote = text
IsBool(text) == text \in {"true", "false"}

Deserializable(object) ==
  /\ IsNumber(object.id)
  /\ IsString(object.name)
  /\ IsBool(object.watching)
  /\ IsBool(object.backlog)
  /\ IsBool(object.watched)
  /\ object.rating = "null" \/ object.rating \in {"7.5", "8"}

FromJsonObject(object) ==
  TrackedSubject(CHOOSE n \in Numerals : ToString(n) = object.id,
                 CHOOSE name \in SubjectNames : Quote \o name \o Quote = object.name,
                 object.watching = "true",
                 object.backlog = "true",
                 object.watched = "true",
                 IF object.rating = "null" THEN None ELSE Some(object.rating))

\* watchlist.json: absent, or a text that is white space only, or a JSON
\* array of objects
NoFile == [exists |-> FALSE, array |-> FALSE, padding |-> <<>>, items |-> <<>>]
BlankFile(padding) == [exists |-> TRUE, array |-> FALSE, padding |-> padding, items |-> <<>>]
ArrayFile(items) == [exists |-> TRUE, array |-> TRUE, padding |-> <<>>, items |-> items]

\* HashMap<u32, TrackedSubject>
Insert(map, key, value) ==
  [k \in DOMAIN map \cup {key} |-> IF k = key THEN value ELSE map[k]]

Remove(map, key) == [k \in DOMAIN map \ {key} |-> map[k]]

\* lines 66-69: for item in parsed { map.insert(item.id, item) }
RECURSIVE InsertAll(_, _)
InsertAll(items, map) ==
  IF items = <<>> THEN map
  ELSE InsertAll(Tail(items), Insert(map, FromJsonObject(Head(items)).id,
                                     FromJsonObject(Head(items))))

\* data.values().cloned().collect(): the values in any order
ValuesInAnyOrder(map) ==
  LET n == Cardinality(DOMAIN map)
      orders == { o \in [1..n -> DOMAIN map] : \A i, j \in 1..n : o[i] = o[j] => i = j }
  IN { [i \in 1..n |-> map[o[i]]] : o \in orders }

\* load_tracked (lines 52-71), the data directory being created or not and
\* the file being readable or not
LoadTracked(file, dir_made, readable) ==
  IF ~dir_made THEN Err("CreateDataDirFailed", <<>>)
  ELSE IF ~file.exists THEN Ok(EmptyMap)
  ELSE IF ~readable THEN Err("ReadFailed", <<>>)
  ELSE IF ~file.array /\ Trim(file.padding) = <<>> THEN Ok(EmptyMap)
  ELSE IF ~file.array \/ \E i \in 1..Len(file.items) : ~Deserializable(file.items[i])
       THEN Err("ParseFailed", <<>>)
  ELSE Ok(InsertAll(file.items, EmptyMap))

\* persist_tracked (lines 74-81): the file after fs::write of the list
Persisted(list) == ArrayFile([i \in 1..Len(list) |-> ToJsonObject(list[i])])

\* lines 98-102 with the removal left out
Apply_InsertAlways(data, subject) == Insert(data, subject.id, subject)

\* lines 98-102
Apply(data, subject) ==
  IF ~subject.watching /\ ~subject.backlog /\ ~subject.watched
  THEN Remove(data, subject.id)
  ELSE Insert(data, subject.id, subject)

\* the commands so far: the data directory, the file, the number of saves,
\* whether a save failed, the last subject saved with success for each id,
\* the ids the last save loaded, the last command and what it returned
NewStore(file) ==
  [pc |-> "ready", dir |-> FALSE, file |-> file, saves |-> 0, failed |-> FALSE,
   last |-> [id \in SubjectIds |-> None], had |-> {}, op |-> "", returned |-> None]

\* what fs::write leaves when it fails: the file as it was, or created or
\* truncated and nothing written
WriteFailures(file) == { file, BlankFile(<<>>) }

\* save_tracked_subject (lines 92-105)
SaveTrackedSubject ==
  /\ store.pc = "ready"
  /\ store.saves < MaxSaves
  /\ \E subject \in Subjects, dir_made, readable, dir_made_again, written \in BOOLEAN :
       LET loaded == LoadTracked(store.file, dir_made, readable)
           data == Apply(loaded.value, subject)
           counted == [store EXCEPT !.saves = @ + 1, !.op = "save",
                                    !.dir = @ \/ dir_made]
           failed(error) == [counted EXCEPT !.failed = TRUE,
                                            !.returned = Some(Err(error, <<>>))]
       IN IF loaded.tag = "Err" THEN store' = failed(loaded.error)
          ELSE IF ~dir_made_again
            THEN store' = [failed("CreateDataDirFailed") EXCEPT
                             !.had = DOMAIN loaded.value]
          ELSE IF ~written
            THEN \E left \in WriteFailures(store.file) :
                   store' = [failed("WriteFailed") EXCEPT
                               !.had = DOMAIN loaded.value, !.file = left]
          ELSE \E list \in ValuesInAnyOrder(data) :
                 store' = [counted EXCEPT
                             !.had = DOMAIN loaded.value,
                             !.file = Persisted(list),
                             !.last[subject.id] = Some(subject),
                             !.returned = Some(Ok(list))]
  /\ UNCHANGED <<mediaState, build, server, fetch, torrent, folders, tagging>>

\* list_tracked_subjects (lines 84-88)
ListTrackedSubjects ==
  /\ store.pc = "ready"
  /\ \E dir_made, readable \in BOOLEAN :
       LET loaded == LoadTracked(store.file, dir_made, readable)
       IN IF loaded.tag = "Err"
          THEN store' = [store EXCEPT !.op = "list", !.dir = @ \/ dir_made,
                                      !.returned = Some(Err(loaded.error, <<>>))]
          ELSE \E list \in ValuesInAnyOrder(loaded.value) :
                 store' = [store EXCEPT !.op = "list", !.dir = TRUE,
                                        !.returned = Some(Ok(list))]
  /\ UNCHANGED <<mediaState, build, server, fetch, torrent, folders, tagging>>

NextStore ==
  \/ SaveTrackedSubject
  \/ ListTrackedSubjects

----------------------------------------------------------------------------
(* finalize_torrent_download *)

\* a disk: the paths of the files and of the directories, a path being the
\* sequence of its components
Disk(file_paths, dir_paths) == [files |-> file_paths, dirs |-> dir_paths]

Entries(disk) == disk.files \cup disk.dirs

Within(path, dir) == Len(dir) <= Len(path) /\ SubSeq(path, 1, Len(dir)) = dir

Ancestors(path) == { SubSeq(path, 1, n) : n \in 1..Len(path) }

Moved(path, from, to) == to \o SubSeq(path, Len(from) + 1, Len(path))

\* fs::read_dir: the entries of a directory
ReadDir(disk, dir) ==
  { path \in Entries(disk) : Len(path) = Len(dir) + 1 /\ Within(path, dir) }

\* fs::create_dir_all: fails when a component is a file
CanCreateDirAll(disk, dir) == Ancestors(dir) \cap disk.files = {}

CreateDirAll(disk, dir) == Disk(disk.files, disk.dirs \cup Ancestors(dir))

\* fs::rename: a path renamed to itself stays; a directory replaces an
\* empty directory only, a file replaces a file only, and nothing is moved
\* into itself
CanRename(disk, from, to) ==
  \/ from = to
  \/ /\ ~Within(to, from)
     /\ to \in disk.dirs => from \in disk.dirs /\ ReadDir(disk, to) = {}
     /\ to \in disk.files => from \in disk.files

Rename(disk, from, to) ==
  IF from = to THEN disk
  ELSE LET place(paths) ==
             { path \in paths : path # to /\ ~Within(path, from) }
             \cup { Moved(path, from, to) : path \in { p \in paths : Within(p, from) } }
       IN Disk(place(disk.files), place(disk.dirs))

\* fs::remove_dir_all
RemoveDirAll(disk, dir) ==
  Disk({ path \in disk.files : ~Within(path, dir) },
       { path \in disk.dirs : ~Within(path, dir) })

\* lines 158-162: the first count entries, in the order read_dir yields
\* them, are renamed into the final folder
RECURSIVE MoveEntries(_, _, _, _, _)
MoveEntries(disk, order, count, temp_path, final_path) ==
  IF count = 0 \/ order = <<>> THEN [moved |-> 0, disk |-> disk]
  ELSE LET dest == Moved(Head(order), temp_path, final_path)
       IN IF ~CanRename(disk, Head(order), dest) THEN [moved |-> 0, disk |-> disk]
          ELSE LET rest == MoveEntries(Rename(disk, Head(order), dest), Tail(order),
                                       count - 1, temp_path, final_path)
               IN [moved |-> rest.moved + 1, disk |-> rest.disk]

InAnyOrder(set) ==
  LET n == Cardinality(set)
  IN { o \in [1..n -> set] : \A i, j \in 1..n : o[i] = o[j] => i = j }

\* the command so far: its two arguments, the disk, the disk before the
\* last call, the entries the last call moved and what each call returned
NewFolders(temp_folder, final_folder, disk) ==
  [pc |-> "ready", temp_folder |-> temp_folder, final_folder |-> final_folder,
   disk |-> disk, before |-> disk, moved |-> <<>>, returned |-> <<>>]

\* finalize_torrent_download (lines 146-166)
FinalizeTorrentDownload ==
  /\ folders.pc = "ready"
  /\ Len(folders.returned) < MaxFinalizes
  /\ \E created, listed, removed \in BOOLEAN :
       LET temp_path == folders.temp_folder
           final_path == folders.final_folder
           disk == folders.disk
           begun == [folders EXCEPT !.before = disk, !.moved = <<>>]
           return(result, left, moved) ==
             [begun EXCEPT !.disk = left, !.moved = moved,
                           !.returned = Append(@, result)]
       IN IF temp_path \notin Entries(disk)
            THEN folders' = return(Ok(<<>>), disk, <<>>)
          ELSE IF ~created \/ ~CanCreateDirAll(disk, final_path)
            THEN folders' = return(Err("CreateFinalDirFailed", <<>>), disk, <<>>)
          ELSE LET made == CreateDirAll(disk, final_path)
               IN IF ~listed \/ temp_path \notin made.dirs
                    THEN folders' = return(Err("ReadTempDirFailed", <<>>), made, <<>>)
                  ELSE \E order \in InAnyOrder(ReadDir(made, temp_path)) :
                         \E count \in 0..Len(order) :
                           LET move == MoveEntries(made, order, count, temp_path, final_path)
                               moved == SubSeq(order, 1, move.moved)
                           IN IF move.moved < Len(order)
                                THEN folders' = return(Err("MoveFailed", <<>>), move.disk, moved)
                              ELSE IF ~removed
                                THEN folders' = return(Err("RemoveTempDirFailed", <<>>),
                                                       move.disk, moved)
                              ELSE folders' = return(Ok(<<>>),
                                                     RemoveDirAll(move.disk, temp_path), moved)
  /\ UNCHANGED <<mediaState, build, server, fetch, torrent, store, tagging>>

NextFinalize == FinalizeTorrentDownload

----------------------------------------------------------------------------
(* map_tags_to_official and the tables of get_subject_filters_impl *)

\* A character outside ASCII is written as its code point, U+7537 for the
\* first character of the audience "male-oriented"; an ASCII character is
\* written as itself.

\* OFFICIAL_TYPES (lines 431-460)
OFFICIAL_TYPES ==
  << <<"U+79D1", "U+5E7B">>,
     <<"U+559C", "U+5267">>,
     <<"U+540C", "U+4EBA">>,
     <<"U+767E", "U+5408">>,
     <<"U+6821", "U+56ED">>,
     <<"U+60CA", "U+609A">>,
     <<"U+540E", "U+5BAB">>,
     <<"U+673A", "U+6218">>,
     <<"U+60AC", "U+7591">>,
     <<"U+604B", "U+7231">>,
     <<"U+5947", "U+5E7B">>,
     <<"U+63A8", "U+7406">>,
     <<"U+8FD0", "U+52A8">>,
     <<"U+803D", "U+7F8E">>,
     <<"U+97F3", "U+4E50">>,
     <<"U+6218", "U+6597">>,
     <<"U+5192", "U+9669">>,
     <<"U+840C", "U+7CFB">>,
     <<"U+7A7F", "U+8D8A">>,
     <<"U+7384", "U+5E7B">>,
     <<"U+4E59", "U+5973">>,
     <<"U+6050", "U+6016">>,
     <<"U+5386", "U+53F2">>,
     <<"U+65E5", "U+5E38">>,
     <<"U+5267", "U+60C5">>,
     <<"U+6B66", "U+4FA0">>,
     <<"U+7F8E", "U+98DF">>,
     <<"U+804C", "U+573A">> >>

\* OFFICIAL_REGIONS (lines 463-477)
OFFICIAL_REGIONS ==
  << <<"U+65E5", "U+672C">>,
     <<"U+6B27", "U+7F8E">>,
     <<"U+4E2D", "U+56FD">>,
     <<"U+7F8E", "U+56FD">>,
     <<"U+97E9", "U+56FD">>,
     <<"U+6CD5", "U+56FD">>,
     <<"U+4E2D", "U+56FD", "U+9999", "U+6E2F">>,
     <<"U+82F1", "U+56FD">>,
     <<"U+4FC4", "U+7F57", "U+65AF">>,
     <<"U+82CF", "U+8054">>,
     <<"U+6377", "U+514B">>,
     <<"U+4E2D", "U+56FD", "U+53F0", "U+6E7E">>,
     <<"U+9A6C", "U+6765", "U+897F", "U+4E9A">> >>

\* OFFICIAL_AUDIENCES (lines 480-488)
OFFICIAL_AUDIENCES ==
  << <<"B", "L">>,
     <<"G", "L">>,
     <<"U+5B50", "U+4F9B", "U+5411">>,
     <<"U+5973", "U+6027", "U+5411">>,
     <<"U+5C11", "U+5973", "U+5411">>,
     <<"U+5C11", "U+5E74", "U+5411">>,
     <<"U+9752", "U+5E74", "U+5411">> >>

\* TYPE_ALIASES (lines 491-498): from, to
TYPE_ALIASES ==
  << << <<"U+641E", "U+7B11">>, <<"U+559C", "U+5267">> >>,
     << <<"U+604B", "U+611B">>, <<"U+604B", "U+7231">> >>,
     << <<"U+65E5", "U+5E38", "U+7CFB">>, <<"U+65E5", "U+5E38">> >>,
     << <<"U+71B1", "U+8840">>, <<"U+6218", "U+6597">> >>,
     << <<"U+673A", "U+7532">>, <<"U+673A", "U+6218">> >>,
     << <<"U+840C">>, <<"U+840C", "U+7CFB">> >> >>

\* REGION_ALIASES (lines 501-509): from, to
REGION_ALIASES ==
  << << <<"U+5927", "U+9646">>, <<"U+4E2D", "U+56FD">> >>,
     << <<"U+4E2D", "U+56FD", "U+5927", "U+9646">>, <<"U+4E2D", "U+56FD">> >>,
     << <<"U+9999", "U+6E2F">>, <<"U+4E2D", "U+56FD", "U+9999", "U+6E2F">> >>,
     << <<"U+53F0", "U+6E7E">>, <<"U+4E2D", "U+56FD", "U+53F0", "U+6E7E">> >>,
     << <<"U+6B27", "U+7F8E", "U+52A8", "U+753B">>, <<"U+6B27", "U+7F8E">> >>,
     << <<"U+6B27", "U+6D32">>, <<"U+6B27", "U+7F8E">> >>,
     << <<"U+4FC4", "U+56FD">>, <<"U+4FC4", "U+7F57", "U+65AF">> >> >>

\* AUDIENCE_ALIASES (lines 512-525): from, to
AUDIENCE_ALIASES ==
  << << <<"U+5C11", "U+5E74">>, <<"U+5C11", "U+5E74", "U+5411">> >>,
     << <<"U+5C11", "U+5973">>, <<"U+5C11", "U+5973", "U+5411">> >>,
     << <<"U+9752", "U+5E74">>, <<"U+9752", "U+5E74", "U+5411">> >>,
     << <<"U+513F", "U+7AE5">>, <<"U+5B50", "U+4F9B", "U+5411">> >>,
     << <<"U+513F", "U+7AE5", "U+5411">>, <<"U+5B50", "U+4F9B", "U+5411">> >>,
     << <<"U+5973", "U+6027", "U+5411">>, <<"U+5973", "U+6027", "U+5411">> >>,
     << <<"U+7537", "U+6027", "U+5411">>, <<"U+7537", "U+6027", "U+5411">> >>,
     << <<"U+7537", "U+5411">>, <<"U+7537", "U+6027", "U+5411">> >>,
     << <<"U+5973", "U+5411">>, <<"U+5973", "U+6027", "U+5411">> >>,
     << <<"U+767E", "U+5408">>, <<"G", "L">> >>,
     << <<"U+803D", "U+7F8E">>, <<"B", "L">> >>,
     << <<"U+8150", "U+5411">>, <<"B", "L">> >> >>

\* normalize_tag (filters.rs 127-129)
NormalizeTag(value) == ToLowercase(Trim(value))

\* the two HashMaps as the pairs inserted, in the order of insertion
OfficialMap(official) ==
  [i \in 1..Len(official) |-> << NormalizeTag(official[i]), official[i] >>]

AliasMap(aliases) ==
  [i \in 1..Len(aliases) |-> << NormalizeTag(aliases[i][1]), aliases[i][2] >>]

\* HashMap::get: the value of the last pair inserted with the key
MapGet(pairs, key) ==
  LET hits == { i \in 1..Len(pairs) : pairs[i][1] = key }
  IN IF hits = {} THEN None
     ELSE Some(pairs[CHOOSE i \in hits : \A j \in hits : j <= i][2])

\* seen.insert(value) && output.push(value)
PushUnseen(output, value) ==
  IF \E i \in 1..Len(output) : output[i] = value THEN output ELSE Append(output, value)

\* filters.rs 152-164: the official name of one tag, or none
Mapped(tag, official, aliases) ==
  LET normalized == NormalizeTag(tag)
      by_name == MapGet(OfficialMap(official), normalized)
  IN IF by_name # None THEN by_name ELSE MapGet(AliasMap(aliases), normalized)

\* the loop of filters.rs 152-165
RECURSIVE MapTagsFrom(_, _, _, _)
MapTagsFrom(tags, official, aliases, output) ==
  IF tags = <<>> THEN output
  ELSE LET value == Mapped(Head(tags), official, aliases)
       IN MapTagsFrom(Tail(tags), official, aliases,
                      IF value = None THEN output ELSE PushUnseen(output, value[1]))

\* map_tags_to_official (filters.rs 132-167)
MapTagsToOfficial(tags, official, aliases) == MapTagsFrom(tags, official, aliases, <<>>)

\* the command so far: the tags collected for the subject and the three
\* lists returned
NewTagging(tags) ==
  [pc |-> "ready", tags |-> tags, types |-> <<>>, regions |-> <<>>, audiences |-> <<>>]

\* get_subject_filters_impl (api.rs 405-535), the subject fetched or not
GetSubjectFilters ==
  /\ tagging.pc = "ready"
  /\ \E answered \in BOOLEAN :
       tagging' =
         IF ~answered THEN [tagging EXCEPT !.pc = "failed"]
         ELSE [tagging EXCEPT
                 !.pc = "done",
                 !.types = MapTagsToOfficial(tagging.tags, OFFICIAL_TYPES, TYPE_ALIASES),
                 !.regions = MapTagsToOfficial(tagging.tags, OFFICIAL_REGIONS, REGION_ALIASES),
                 !.audiences =
                   MapTagsToOfficial(tagging.tags, OFFICIAL_AUDIENCES, AUDIENCE_ALIASES)]
  /\ UNCHANGED <<mediaState, build, server, fetch, torrent, store, folders>>

NextTags == GetSubjectFilters

----------------------------------------------------------------------------
(* The commands when they are never invoked *)

NoMedia == [path |-> <<>>]
NoProbe == [NewProbe(<<>>, <<>>) EXCEPT !.pc = "idle"]
NoSizing == [NewSizing(<<>>) EXCEPT !.pc = "idle"]

NoInspection ==
  /\ media = NoMedia
  /\ probe = NoProbe
  /\ sizing = NoSizing

NoServer == [kind |-> "none"]
NoFetch == [NewFetch("") EXCEPT !.pc = "idle"]

NoTorrent ==
  [cell |-> None, permit |-> "free", sessions |-> 0,
   commands |-> [c \in TorrentCommands |-> [NewTorrentCommand("") EXCEPT !.pc = "idle"]]]

NoStore == [NewStore(NoFile) EXCEPT !.pc = "idle"]
NoFolders == [NewFolders(<<>>, <<>>, Disk({}, {})) EXCEPT !.pc = "idle"]
NoTagging == [NewTagging(<<>>) EXCEPT !.pc = "idle"]

NoServices ==
  /\ server = NoServer
  /\ fetch = NoFetch
  /\ torrent = NoTorrent
  /\ store = NoStore
  /\ folders = NoFolders
  /\ tagging = NoTagging

----------------------------------------------------------------------------
(* Initial states: the disk and the requests *)

\* the media files on disk
SourceA == <<"a">>
SourceB == <<"b">>
SourceFiles == {SourceA, SourceB}

InstalledMkvmerge == PathJoin(ResourceBin, Mkvmerge)

\* output paths: a bare file name without extension, a file in a directory
\* that does not exist yet, the same without extension, a file name that
\* starts with its only dot, a file name that ends with a dot, and the empty
\* string
MixOutput == <<"d", "/", "o">>
OutputPaths ==
  { <<"o">>, <<"d", "/", "o", ".", "mkv">>, MixOutput, <<".", "o">>, <<"o", ".">>, <<>> }

SeqsUpTo(S, n) == UNION { [1..len -> S] : len \in 0..n }

\* every HashMap from a subset of keys to values
Maps(keys, values) == UNION { [ks -> values] : ks \in SUBSET keys }

InitDisk ==
  /\ clock = 0
  /\ files \in { SourceFiles, SourceFiles \cup {InstalledMkvmerge} }
  /\ dirs = {}
  /\ build = [windows |-> FALSE, debug_assertions |-> FALSE]
  /\ NoInspection
  /\ NoServices

\* Spec: two invocations in flight, each asking for some of the tracks of
\* one request
MixSelections ==
  << [path |-> SourceA, kind |-> kVideo, track_ids |-> << <<"0">> >>,
      track_langs |-> EmptyMap],
     [path |-> SourceA, kind |-> kAudio, track_ids |-> << <<"1">> >>,
      track_langs |-> EmptyMap],
     [path |-> SourceB, kind |-> kSubtitle, track_ids |-> << <<"2">> >>,
      track_langs |-> [id \in { <<"2">> } |-> <<"zh-Hans">>]] >>

RECURSIVE SubSeqs(_)
\* every subsequence of s
SubSeqs(s) ==
  IF s = <<>> THEN { <<>> }
  ELSE LET rest == SubSeqs(Tail(s))
       IN rest \cup { <<Head(s)>> \o r : r \in rest }

MixRequests == SubSeqs(MixSelections)

Init ==
  /\ InitDisk
  /\ calls \in [Calls -> { NewCall(inputs, MixOutput) : inputs \in MixRequests }]

Spec == Init /\ [][Next]_vars

\* SpecPlan: one invocation (the other command is never invoked) over every
\* request of up to MaxInputs selections that differ in source path (present,
\* present with surrounding blanks, blank, absent), kind and track ids
\* (one id, blank only)
PlanPaths == { SourceA, SourceB, <<" ", "a">>, <<" ">>, <<"x">> }
PlanKinds == { kVideo, kAudio }
PlanIdLists == { << <<"1">> >>, << <<" ">> >> }
PlanSelections ==
  [path : PlanPaths, kind : PlanKinds, track_ids : PlanIdLists, track_langs : {EmptyMap}]

InitPlan ==
  /\ clock = MaxClock - 1
  /\ files = SourceFiles \cup {InstalledMkvmerge}
  /\ dirs = {}
  /\ build = [windows |-> FALSE, debug_assertions |-> FALSE]
  /\ NoInspection
  /\ NoServices
  /\ \E inputs \in SeqsUpTo(PlanSelections, MaxInputs) :
       calls = [c \in Calls |-> IF c = "c1" THEN NewCall(inputs, MixOutput) ELSE NoCall]

SpecPlan == InitPlan /\ [][Next]_vars

\* SpecLang: one invocation over every request of up to MaxLangInputs
\* selections of one source that differ in kind, track ids and language
\* overrides
LangKinds == { kVideo, <<"V", "i", "d", "e", "o">>, kSubtitle }
LangIdLists == { << <<"1">> >>, << <<" ", "1">> >>, <<>> }
LangKeys == { <<"1">>, <<" ", "1">> }
LangValues == { <<"en">> }
LangSelections ==
  [path : {SourceA}, kind : LangKinds, track_ids : LangIdLists,
   track_langs : Maps(LangKeys, LangValues)]

InitLang ==
  /\ clock = MaxClock - 1
  /\ files = SourceFiles \cup {InstalledMkvmerge}
  /\ dirs = {}
  /\ build = [windows |-> FALSE, debug_assertions |-> FALSE]
  /\ NoInspection
  /\ NoServices
  /\ \E inputs \in SeqsUpTo(LangSelections, MaxLangInputs) :
       calls = [c \in Calls |-> IF c = "c1" THEN NewCall(inputs, <<"o">>) ELSE NoCall]

SpecLang == InitLang /\ [][Next]_vars

\* SpecGroup: one invocation over every request of up to MaxGroupInputs
\* selections drawn from: video and audio selections of the source a that
\* differ in track ids (two ids, two ids of which one repeats an earlier one
\* with surrounding blanks, blank only) and overrides (none, one), a selection
\* spelled "Video" that overrides an override and adds one, a subtitle
\* selection, and two video selections of the source b (one id, blank only)
\* with an override
GroupIdLists == { << <<"1">>, <<"2">> >>, << <<" ", "2">>, <<"3">> >>, << <<" ">> >> }
GroupLangs == { EmptyMap, [id \in { <<"2">> } |-> <<"en">>] }
GroupSelections ==
  [path : {SourceA}, kind : {kVideo, kAudio}, track_ids : GroupIdLists,
   track_langs : GroupLangs]
  \cup { [path |-> SourceA, kind |-> <<"V", "i", "d", "e", "o">>,
          track_ids |-> << <<"2">>, <<"2">> >>,
          track_langs |-> [id \in { <<"2">>, <<"3">> } |->
                             IF id = <<"2">> THEN <<"fr">> ELSE <<"en">>]],
         [path |-> SourceA, kind |-> kSubtitle,
          track_ids |-> << <<"1">>, <<"2">> >>,
          track_langs |-> [id \in { <<"2">> } |-> <<"en">>]] }
  \cup [path : {SourceB}, kind : {kVideo}, track_ids : { << <<"1">> >>, << <<" ">> >> },
        track_langs : { [id \in { <<"9">> } |-> <<"fr">>] }]

InitGroup ==
  /\ clock = MaxClock - 1
  /\ files = SourceFiles \cup {InstalledMkvmerge}
  /\ dirs = {}
  /\ build = [windows |-> FALSE, debug_assertions |-> FALSE]
  /\ NoInspection
  /\ NoServices
  /\ \E inputs \in SeqsUpTo(GroupSelections, MaxGroupInputs) :
       calls = [c \in Calls |-> IF c = "c1" THEN NewCall(inputs, MixOutput) ELSE NoCall]

SpecGroup == InitGroup /\ [][Next]_vars

\* SpecOutput: one invocation asking for some of the tracks of one request,
\* over every output path
InitOutput ==
  /\ clock = MaxClock - 1
  /\ files = SourceFiles \cup {InstalledMkvmerge}
  /\ dirs = {}
  /\ build = [windows |-> FALSE, debug_assertions |-> FALSE]
  /\ NoInspection
  /\ NoServices
  /\ \E inputs \in MixRequests, output_path \in OutputPaths :
       calls = [c \in Calls |-> IF c = "c1" THEN NewCall(inputs, output_path) ELSE NoCall]

SpecOutput == InitOutput /\ [][Next]_vars

\* SpecKinds: one invocation over every request of up to MaxKindInputs
\* selections of one track each, of the source a with a kind that is video,
\* audio or subtitle in some spelling or is none of them, or of the source b
\* with a kind that is none of them; one video selection overrides the
\* language of its track with und
kChapters == <<"c", "h", "a", "p", "t", "e", "r", "s">>
OtherKinds == { kChapters, kSubtitles, <<" ", "v", "i", "d", "e", "o">> }
KindSelections ==
  [path : {SourceA}, kind : {<<"A", "U", "D", "I", "O">>, kSubtitle} \cup OtherKinds,
   track_ids : { << <<"1">> >> }, track_langs : {EmptyMap}]
  \cup [path : {SourceA}, kind : {kVideo}, track_ids : { << <<"1">> >> },
        track_langs : { EmptyMap, [id \in { <<"1">> } |-> <<"und">>] }]
  \cup [path : {SourceB}, kind : {kChapters}, track_ids : { << <<"1">> >> },
        track_langs : {EmptyMap}]

InitKinds ==
  /\ clock = MaxClock - 1
  /\ files = SourceFiles \cup {InstalledMkvmerge}
  /\ dirs = {}
  /\ build = [windows |-> FALSE, debug_assertions |-> FALSE]
  /\ NoInspection
  /\ NoServices
  /\ \E inputs \in SeqsUpTo(KindSelections, MaxKindInputs) :
       calls = [c \in Calls |-> IF c = "c1" THEN NewCall(inputs, <<"o">>) ELSE NoCall]

SpecKinds == InitKinds /\ [][Next]_vars

\* SpecCmdline: one invocation whose source, output path and language
\* override hold blanks, tabs, line feeds and double quotes inside
CmdSources ==
  { <<"a">>, <<"a", " ", "b">>, <<"a", "\t", "b">>, <<"a", "\"", "b">>,
    <<"a", "\n", "b">>, <<"\"", "a", " ", "\"">> }
CmdOutputs == { <<"o", ".", "m", "k", "v">>, <<"o", " ", "1">>, <<"\"", "o">>, <<"o", "\n">> }
CmdLangs == { EmptyMap, [id \in { <<"1">> } |-> <<"e", "\"", "n">>] }

InitCmdline ==
  /\ clock = MaxClock - 1
  /\ dirs = {}
  /\ build = [windows |-> FALSE, debug_assertions |-> FALSE]
  /\ NoInspection
  /\ NoServices
  /\ \E source \in CmdSources, output_path \in CmdOutputs, track_langs \in CmdLangs,
        kinds \in { <<kVideo>>, <<kVideo, kAudio>> } :
       /\ files = {source, InstalledMkvmerge}
       /\ calls = [c \in Calls |->
            IF c = "c1"
              THEN NewCall([i \in 1..Len(kinds) |->
                              [path |-> source, kind |-> kinds[i],
                               track_ids |-> << <<"1">> >>, track_langs |-> track_langs]],
                           output_path)
              ELSE NoCall]

SpecCmdline == InitCmdline /\ [][Next]_vars

\* the next statement of an invocation: the command is an async task that
\* the runtime keeps polling
MixStep(c) ==
  \/ CheckInputs(c)
  \/ PrepareOutput(c)
  \/ LocateMkvmerge(c)
  \/ GroupInputs(c)
  \/ CreateTempRoot(c)
  \/ SkipBuild(c)
  \/ SpawnBuild(c)
  \/ SpawnCombine(c)
  \/ RemoveTemp(c)
  \/ ReturnOutput(c)

\* the muxer process the invocation awaits terminates
MuxerExits(c) == ExitBuild(c) \/ ExitCombine(c)

\* SpecLive: SpecOutput where the runtime keeps polling the task and every
\* muxer process terminates
SpecLive ==
  /\ InitOutput
  /\ [][Next]_vars
  /\ \A c \in Calls : WF_vars(MixStep(c)) /\ WF_vars(MuxerExits(c))

----------------------------------------------------------------------------
(* Initial states of the inspection commands *)

InstalledFfprobe == PathJoin(ResourceBin, Ffprobe)

MkvTrack(id, type, codec, properties) ==
  [id |-> id, type |-> type, codec |-> codec, properties |-> properties]

MkvReport(file_size, tracks) ==
  [container |-> Some([type |-> Some("Matroska"),
                       properties |-> Some([file_size |-> file_size])]),
   tracks |-> Some(tracks)]

FfStream(index, codec_type, codec_name, tags) ==
  [index |-> index, codec_type |-> codec_type, codec_name |-> codec_name,
   disposition |-> Some([default |-> Some(1), forced |-> None]), tags |-> tags]

FfReport(size, streams) ==
  [streams |-> Some(streams),
   format |-> Some([format_name |-> Some("mov,mp4"), size |-> size])]

Succeeds(report) == [success |-> TRUE, stdout |-> Some(report), stderr |-> <<>>]

\* one probe and one size query of the file at path, with no mix in flight
InitInspect(path, kind, len, mkvmerge, ffprobe, on_disk) ==
  /\ clock = 0
  /\ files = on_disk
  /\ dirs = {}
  /\ build = [windows |-> FALSE, debug_assertions |-> FALSE]
  /\ calls = [c \in Calls |-> NoCall]
  /\ media = [path |-> path, len |-> len, mkvmerge |-> mkvmerge, ffprobe |-> ffprobe]
  /\ probe = NewProbe(path, kind)
  /\ sizing = NewSizing(path)
  /\ NoServices

MovieMkv == <<"a", ".", "m", "k", "v">>
MovieMp4 == <<"a", ".", "m", "p", "4">>

\* a report of each analyzer with a video and an audio track
SampleMkvReport ==
  MkvReport(Some(<<0, 1>>),
    << MkvTrack(0, Some(kVideo), Some("AVC"), None),
       MkvTrack(1, Some(kAudio), None,
                Some([NoProperties EXCEPT !.codec_id = Some("A_AAC"),
                                          !.language = Some(<<"j", "p", "n">>)])) >>)

SampleFfReport ==
  FfReport(Some(<<"1", "0", "2", "4">>),
    << FfStream(Some(0), Some(kVideo), Some("h264"), None),
       FfStream(None, Some(kAudio), Some("aac"),
                Some([NoTags EXCEPT !.language = Some(<<"j", "p", "n">>)])) >>)

\* SpecProbe: a probe of a path with one of these names, with each analyzer
\* installed or not, and with each analyzer exiting non-zero, printing
\* something that does not decode, or printing a report
ProbePaths ==
  { MovieMkv, MovieMp4,
    <<"a", ".", "M", "K", "V">>, <<"a", ".", "M", "k", "a">>, <<"d", "/", "a", ".", "m", "k", "S">>,
    <<"a", ".", "m", "k", "s">>, <<"a">>, <<".", "m", "k", "v">>, <<"m", "k", "v">>,
    <<"a", ".", "m", "k", "v", ".", "t", "x", "t">>, <<"a", ".", "m", "k", "v", "x">>,
    <<"d", ".", "m", "k", "v", "/", "a">> }

ProbeKinds == { kVideo, <<"A", "u", "d", "i", "o">> }

ProbeOutputs(report) ==
  { [success |-> FALSE, stdout |-> None, stderr |-> <<"e", "r", "r">>],
    [success |-> FALSE, stdout |-> Some(report), stderr |-> <<"e", InvalidByte>>],
    [success |-> TRUE, stdout |-> None, stderr |-> <<>>],
    [success |-> TRUE, stdout |-> Some(report), stderr |-> <<"w">>] }

InitProbe ==
  \E path \in ProbePaths, kind \in ProbeKinds,
     tools \in SUBSET {InstalledMkvmerge, InstalledFfprobe},
     mkvmerge \in ProbeOutputs(SampleMkvReport), ffprobe \in ProbeOutputs(SampleFfReport) :
    InitInspect(path, kind, <<0, 1>>, mkvmerge, ffprobe, {path} \cup tools)

SpecProbe == InitProbe /\ [][NextInspect]_vars

\* SpecCodec: a probe of a Matroska file or of another file whose report
\* holds one video track, over every way the codec fields can be absent,
\* empty or filled
CodecFields == { None, Some(""), Some("V_X") }

CodecMkvReports ==
  { MkvReport(None, << MkvTrack(0, Some(kVideo), codec, properties) >>) :
      codec \in CodecFields,
      properties \in {None} \cup
        { Some([NoProperties EXCEPT !.codec_name = codec_name, !.codec_id = codec_id]) :
            codec_name \in CodecFields, codec_id \in CodecFields } }

CodecFfReports ==
  { FfReport(None, << FfStream(Some(0), Some(kVideo), codec_name, None) >>) :
      codec_name \in CodecFields }

InitCodec ==
  \E path \in {MovieMkv, MovieMp4},
     mkv \in CodecMkvReports, ff \in CodecFfReports :
    InitInspect(path, kVideo, <<0, 1>>, Succeeds(mkv), Succeeds(ff),
                {path, InstalledMkvmerge, InstalledFfprobe})

SpecCodec == InitCodec /\ [][NextInspect]_vars

\* SpecLanguage: a probe whose report holds two audio tracks, over every
\* pair of language codes: each code below as it is, in capitals, and with
\* surrounding blanks
LanguageBases ==
  { <<"j","p","n">>, <<"j","a">>, <<"e","n","g">>, <<"e","n">>, <<"c","h","i">>,
    <<"z","h","o">>, <<"z","h">>, <<"c","h","s">>, <<"z","h","-","c","n">>,
    <<"c","m","n">>, <<"c","h","t">>, <<"z","h","-","t","w">>, <<"k","o","r">>,
    <<"k","o">>, <<"f","r","a">>, <<"f","r">>, <<"d","e","u">>, <<"g","e","r">>,
    <<"d","e">>, <<"s","p","a">>, <<"e","s">>,
    <<"z","h","-","h","a","n","s">>, <<"z","h","-","h","a","n","s","-","c","n">>,
    <<"z","h","-","h","a","n","t">>, <<"z","h","-","h","a","n","t","-","t","w">>,
    <<"z","h","-","h","k">>, <<"z","h","-","m","o">>, <<"z","h","-","h","a","n">>,
    <<"z","h","-","s","g">>, <<"j","a","-","j","p">>, <<"u","n","d">>, <<"i","t">>,
    <<"e","n","-","u","s">>, <<"j", " ", "a">>, <<>> }

ToUppercase(s) ==
  [i \in 1..Len(s) |->
     IF \E n \in 1..Len(LowerCase) : LowerCase[n] = s[i]
       THEN UpperCase[CHOOSE n \in 1..Len(LowerCase) : LowerCase[n] = s[i]]
       ELSE s[i]]

LanguageCodes ==
  UNION { { base, ToUppercase(base), <<" ">> \o base \o <<"\t">> } : base \in LanguageBases }

InitLanguage ==
  \E path \in {MovieMkv, MovieMp4}, first \in LanguageCodes, second \in LanguageCodes :
    InitInspect(path, kAudio, <<0, 1>>,
      Succeeds(MkvReport(None,
        << MkvTrack(1, Some(kAudio), None,
                    Some([NoProperties EXCEPT !.language_ietf = Some(first)])),
           MkvTrack(2, Some(kAudio), None,
                    Some([NoProperties EXCEPT !.language = Some(second)])) >>)),
      Succeeds(FfReport(None,
        << FfStream(Some(1), Some(kAudio), None, Some([NoTags EXCEPT !.language = Some(first)])),
           FfStream(Some(2), Some(kAudio), None, Some([NoTags EXCEPT !.language = Some(second)])) >>)),
      {path, InstalledMkvmerge, InstalledFfprobe})

SpecLanguage == InitLanguage /\ [][NextInspect]_vars

\* SpecBytes: a size query and a probe of a Matroska file, present or not,
\* over lengths below 2^53 written in base 1024
ByteValues ==
  { <<d0, d1, d2, d3, d4, d5>> :
      d0 \in {0, 1, 128, 512, 1023}, d1 \in {0, 1, 1023}, d2 \in {0, 1, 1023},
      d3 \in {0, 1}, d4 \in {0, 1, 1023}, d5 \in {0, 7} }

InitBytes ==
  \E len \in ByteValues, on_disk \in { {}, {MovieMkv} } :
    InitInspect(MovieMkv, kVideo, len,
      Succeeds(MkvReport(Some(len), << MkvTrack(0, Some(kVideo), Some("AVC"), None) >>)),
      Succeeds(SampleFfReport),
      on_disk \cup {InstalledMkvmerge, InstalledFfprobe})

SpecBytes == InitBytes /\ [][NextInspect]_vars

\* SpecLocator: a probe under each build configuration, with every subset of
\* the places where the analyzer of the path can be installed
ToolPlaces(name) ==
  { PathJoin(ResourceBin, name), PathJoin(ResourceBin, Exe(name)),
    PathJoin(DevBin, name), PathJoin(DevBin, Exe(name)) }

InitLocator ==
  \E path \in {MovieMkv, MovieMp4}, windows \in BOOLEAN, debug_assertions \in BOOLEAN,
     installed \in SUBSET (ToolPlaces(Mkvmerge) \cup ToolPlaces(Ffprobe)) :
    /\ clock = 0
    /\ files = {path} \cup installed
    /\ dirs = {}
    /\ build = [windows |-> windows, debug_assertions |-> debug_assertions]
    /\ calls = [c \in Calls |-> NoCall]
    /\ media = [path |-> path, len |-> <<0, 1>>,
                mkvmerge |-> Succeeds(SampleMkvReport), ffprobe |-> Succeeds(SampleFfReport)]
    /\ probe = NewProbe(path, kVideo)
    /\ sizing = NewSizing(path)
    /\ NoServices

SpecLocator == InitLocator /\ [][NextInspect]_vars

\* no media command in flight
NoMediaCommands ==
  /\ clock = 0
  /\ files = {}
  /\ dirs = {}
  /\ calls = [c \in Calls |-> NoCall]
  /\ NoInspection

\* no torrent, watchlist, finalize or tag command in flight
NoOtherServices ==
  /\ torrent = NoTorrent
  /\ store = NoStore
  /\ folders = NoFolders
  /\ tagging = NoTagging

\* SpecFetch: either loop against a server that reports one of these totals
\* and answers as it likes, in a build with and without overflow checks
AnyTotals == { U32(0), U32(1), U32(50), U32(51), U32(100), U32(120), MaxU32 }

InitFetch ==
  /\ NoMediaCommands
  /\ NoOtherServices
  /\ \E debug_assertions \in BOOLEAN, total \in AnyTotals, command \in {"month", "aired"} :
       /\ build = [windows |-> FALSE, debug_assertions |-> debug_assertions]
       /\ server = [kind |-> "any", total |-> total]
       /\ fetch = NewFetch(command)

SpecFetch == InitFetch /\ [][NextFetch]_vars

\* SpecPaging: fetch_month_subjects against a paged server
PagedTotals == { 0, 1, 19, 20, 21, 49, 50, 51, 70, 99, 100, 101, 140 }
PageSizes == { 20, 50, 70 }

InitPaging ==
  /\ NoMediaCommands
  /\ NoOtherServices
  /\ \E debug_assertions \in BOOLEAN, total \in PagedTotals, page_size \in PageSizes :
       /\ build = [windows |-> FALSE, debug_assertions |-> debug_assertions]
       /\ server = [kind |-> "paged", total |-> U32(total), page_size |-> page_size]
       /\ fetch = NewFetch("month")

SpecPaging == InitPaging /\ [][NextFetch]_vars

\* SpecTorrent: three torrent commands of any kinds, started together
InitTorrent ==
  /\ NoMediaCommands
  /\ build = [windows |-> FALSE, debug_assertions |-> FALSE]
  /\ server = NoServer
  /\ fetch = NoFetch
  /\ store = NoStore
  /\ folders = NoFolders
  /\ tagging = NoTagging
  /\ \E kinds \in [TorrentCommands -> TorrentKinds] : torrent = NewTorrent(kinds)

SpecTorrent == InitTorrent /\ [][NextTorrent]_vars

\* SpecStore: the watchlist commands from a file that is absent, blank, an
\* array of well-formed objects with or without a repeated id, or an array
\* with an object that is not a subject
StoredSubjects ==
  { TrackedSubject(1, "x", TRUE, FALSE, FALSE, None),
    TrackedSubject(1, "y", FALSE, TRUE, TRUE, Some("7.5")),
    TrackedSubject(2, "x", TRUE, FALSE, FALSE, Some("8")) }

WellFormedFiles ==
  { NoFile, BlankFile(<<>>), BlankFile(<<" ", "\n">>), ArrayFile(<<>>) }
  \cup { ArrayFile([i \in 1..n |-> ToJsonObject(list[i])]) :
           n \in 1..2, list \in [1..2 -> StoredSubjects] }

MalformedFiles ==
  { ArrayFile(<< [ToJsonObject(TrackedSubject(1, "x", TRUE, FALSE, FALSE, None))
                    EXCEPT !.watching = "null"] >>),
    BlankFile(<<"{", "}">>) }

InitStore ==
  /\ NoMediaCommands
  /\ build = [windows |-> FALSE, debug_assertions |-> FALSE]
  /\ server = NoServer
  /\ fetch = NoFetch
  /\ torrent = NoTorrent
  /\ folders = NoFolders
  /\ tagging = NoTagging
  /\ \E file \in WellFormedFiles \cup MalformedFiles : store = NewStore(file)

SpecStore == InitStore /\ [][NextStore]_vars

\* SpecFinalize: the command called again and again with the same two
\* folders: the final folder and a temp folder beside it, below it as
\* start_torrent_download makes it, directly in it, above it, or the final
\* folder itself; each folder absent or holding some of a file x, a file y
\* and a directory y with a file in it
FolderArguments ==
  { << <<"t">>, <<"f">> >>,
    << <<"f", ".downloading", "1">>, <<"f">> >>,
    << <<"f", "t">>, <<"f">> >>,
    << <<"t">>, <<"t", "f">> >>,
    << <<"f">>, <<"f">> >> }

Contents ==
  { Disk({}, {}),
    Disk({ <<"x">> }, {}),
    Disk({ <<"y">> }, {}),
    Disk({ <<"x">>, <<"y">> }, {}),
    Disk({ <<"y", "z">> }, { <<"y">> }),
    Disk({ <<"x">>, <<"y", "z">> }, { <<"y">> }) }

Holding(dir, contents) ==
  Disk({ dir \o path : path \in contents.files },
       Ancestors(dir) \cup { dir \o path : path \in contents.dirs })

Both(one, other) == Disk(one.files \cup other.files, one.dirs \cup other.dirs)

FolderDisks(temp_path, final_path) ==
  { Disk({}, {}) }
  \cup { Holding(temp_path, in_temp) : in_temp \in Contents }
  \cup { Holding(final_path, in_final) : in_final \in Contents }
  \cup { Both(Holding(temp_path, in_temp), Holding(final_path, in_final)) :
           in_temp \in Contents, in_final \in Contents }

InitFinalize ==
  /\ NoMediaCommands
  /\ build = [windows |-> FALSE, debug_assertions |-> FALSE]
  /\ server = NoServer
  /\ fetch = NoFetch
  /\ torrent = NoTorrent
  /\ store = NoStore
  /\ tagging = NoTagging
  /\ \E arguments \in FolderArguments :
       \E disk \in FolderDisks(arguments[1], arguments[2]) :
         /\ disk.files \cap disk.dirs = {}
         /\ folders = NewFolders(arguments[1], arguments[2], disk)

SpecFinalize == InitFinalize /\ [][NextFinalize]_vars

\* SpecTags: the filters of a subject with up to MaxTags tags, each an
\* official name or an alias of one of the three tables, as written or with
\* other case or white space around it, or a text of no table: the
\* audiences male-oriented (U+7537 U+6027 U+5411) and its short form, bl
\* between blanks, BL, Gl, the types lily and tanbi that are aliases of the
\* audiences GL and BL, the alias and the name of the type comedy, of the
\* region China and of the audience boys, Japan before a line feed, xyz and
\* the empty text
AnyTags ==
  { <<"U+7537", "U+6027", "U+5411">>,
    <<"U+7537", "U+5411">>,
    <<" ", "b", "l", " ">>,
    <<"B", "L">>,
    <<"G", "l">>,
    <<"U+767E", "U+5408">>,
    <<"U+803D", "U+7F8E">>,
    <<"U+641E", "U+7B11">>,
    <<"U+559C", "U+5267">>,
    <<"U+5927", "U+9646">>,
    <<"U+4E2D", "U+56FD">>,
    <<"U+65E5", "U+672C", "\n">>,
    <<"x", "y", "z">>,
    <<>>,
    <<"U+5C11", "U+5E74">>,
    <<"U+5C11", "U+5E74", "U+5411">> }

TagLists == UNION { [1..n -> AnyTags] : n \in 0..MaxTags }

InitTags ==
  /\ NoMediaCommands
  /\ build = [windows |-> FALSE, debug_assertions |-> FALSE]
  /\ server = NoServer
  /\ fetch = NoFetch
  /\ torrent = NoTorrent
  /\ store = NoStore
  /\ folders = NoFolders
  /\ \E tags \in TagLists : tagging = NewTagging(tags)

SpecTags == InitTags /\ [][NextTags]_vars

----------------------------------------------------------------------------
(* Vocabulary of the properties *)

InFlight(c) == calls[c].pc \notin {"idle", "done", "failed"}

\* the call passed validation and created its temporary directory
HasTempRoot(c) == calls[c].temp_root # None

Combine == <<"combine">>

\* the kinds among video, audio and subtitle that the consolidated plan holds
SelectedKinds(c) == { Stage1Kinds[i] : i \in 1..Len(Stage1Kinds) } \cap DOMAIN calls[c].kind_inputs

RunsOf(c, stage) == { i \in 1..Len(calls[c].runs) : calls[c].runs[i].stage = stage }

FailedRuns(c) ==
  { i \in 1..Len(calls[c].runs) : calls[c].runs[i].status \in {"spawn_failed", "exit_nonzero"} }

\* the artifact paths the Stage 1 muxer processes of the call wrote (their -o argument)
BuiltArtifacts(c) ==
  { calls[c].runs[i].args[2] :
      i \in { j \in 1..Len(calls[c].runs) :
                calls[c].runs[j].stage # Combine /\ calls[c].runs[j].status = "ok" } }

ReturnedErr(c, errors) ==
  /\ Len(calls[c].returned) = 1
  /\ calls[c].returned[1].tag = "Err"
  /\ calls[c].returned[1].error \in errors

----------------------------------------------------------------------------
(* C1 *)

\* C1: any two mix calls that are in flight together and have both passed
\* validation created distinct temporary directories, so that no intermediate
\* artifact path is written by both.
C1_DistinctTempDirs ==
  \A c1, c2 \in Calls :
    (c1 # c2 /\ InFlight(c1) /\ InFlight(c2) /\ HasTempRoot(c1) /\ HasTempRoot(c2))
      => /\ calls[c1].temp_root # calls[c2].temp_root
         /\ BuiltArtifacts(c1) \cap BuiltArtifacts(c2) = {}

----------------------------------------------------------------------------
(* C2 *)

\* C2: in every reachable state, a combine muxer process of a call (spawned,
\* running or finished) is preceded, for every selected kind among video,
\* audio and subtitle, by a Stage 1 muxer process of that kind that exited
\* with status zero; while a selected kind's Stage 1 is unstarted, running or
\* failed there is no combine process.
C2_CombineAfterStage1 ==
  \A c \in Calls :
    \A i \in RunsOf(c, Combine) :
      \A kind \in SelectedKinds(c) :
        \E j \in RunsOf(c, kind) : j < i /\ calls[c].runs[j].status = "ok"

\* a combine is running in a call that selected all three kinds
C2_Witness ==
  \E c \in Calls :
    /\ calls[c].pc = "combine"
    /\ Running(calls[c])
    /\ Cardinality(SelectedKinds(c)) = 3

----------------------------------------------------------------------------
(* C3 *)

C3_FailedRunEndsCall ==
  \A c \in Calls :
    \A i \in FailedRuns(c) :
      /\ i = Len(calls[c].runs)
      /\ calls[c].pc = "failed"
      /\ ReturnedErr(c, IF calls[c].runs[i].status = "spawn_failed"
                          THEN {"ToolSpawnFailed"} ELSE {"ToolExitedNonZero"})

C3_FailedStays ==
  \A c \in Calls : calls[c].pc = "failed" => calls'[c] = calls[c]

\* C3: a muxer process that fails to spawn or exits non-zero is the last
\* muxer process of its call (no retry, no later invocation), the call is in
\* state Failed and has returned exactly one error, of the matching kind; and
\* a call in state Failed never changes again.
C3_FailureIsTerminal == []C3_FailedRunEndsCall /\ [][C3_FailedStays]_vars

\* a call failed at its second Stage 1 build, after a successful first one
C3_Witness ==
  \E c \in Calls :
    /\ calls[c].pc = "failed"
    /\ Len(calls[c].runs) = 2
    /\ calls[c].runs[1].status = "ok"
    /\ calls[c].runs[2].status = "exit_nonzero"

----------------------------------------------------------------------------
(* C4 *)

CombineSucceeded(c) ==
  \E i \in RunsOf(c, Combine) : calls[c].runs[i].status = "ok"

\* C4: once the combine of a call has succeeded the call only cleans up and
\* returns; when it has returned, it has called remove_file exactly once on
\* every artifact its Stage 1 built, it has returned the output path as
\* success whatever the deletions did, and its temporary directory exists.
C4_CleanupOnSuccess ==
  \A c \in Calls :
    /\ CombineSucceeded(c) => calls[c].pc \in {"cleanup", "done"}
    /\ calls[c].pc = "done" =>
         /\ CombineSucceeded(c)
         /\ Len(calls[c].removed) = Cardinality(BuiltArtifacts(c))
         /\ { calls[c].removed[i].path : i \in 1..Len(calls[c].removed) } = BuiltArtifacts(c)
         /\ calls[c].returned = << Ok(calls[c].output) >>
         /\ calls[c].temp_root[1] \in dirs

\* a call returned success although a deletion failed and left the artifact
C4_Witness ==
  \E c \in Calls :
    /\ calls[c].pc = "done"
    /\ Len(calls[c].removed) = 3
    /\ \E i \in 1..3 : /\ ~calls[c].removed[i].removed
                       /\ calls[c].removed[i].path \in files

----------------------------------------------------------------------------
(* C5 *)

\* C5: a call that failed at a Stage 1 build or at the combine has made no
\* remove_file call, and every artifact written by its earlier successful
\* stages is on disk when the error is returned.
C5_ArtifactsKeptOnFailure ==
  \A c \in Calls :
    (calls[c].pc = "failed" /\ FailedRuns(c) # {}) =>
      /\ calls[c].removed = <<>>
      /\ BuiltArtifacts(c) \subseteq files

----------------------------------------------------------------------------
(* Vocabulary of the planning properties, stated on the raw request *)

\* the planning loop of the call has run (the tool was located before it)
Planned(c) == calls[c].mkvmerge_path # None /\ calls[c].pc # "plan"

IsBlank(s) == \A i \in 1..Len(s) : s[i] \in WhiteSpace

\* the source path of a raw selection is non-empty and exists on disk
SourceOk(sel) == ~IsBlank(sel.path) /\ Trim(sel.path) \in SourceFiles

HasTrackId(sel) == \E i \in 1..Len(sel.track_ids) : ~IsBlank(sel.track_ids[i])

\* a surviving selection: existing source path, at least one non-blank track id
Survives(sel) == SourceOk(sel) /\ HasTrackId(sel)

KindOf(sel) == ToLowercase(sel.kind)

\* two surviving selections of the same kind that name different source paths
ConflictPair(inputs, i, j) ==
  /\ i < j
  /\ Survives(inputs[i]) /\ Survives(inputs[j])
  /\ KindOf(inputs[i]) = KindOf(inputs[j])
  /\ Trim(inputs[i].path) # Trim(inputs[j].path)

ConflictBefore(inputs, n) ==
  \E i, j \in 1..Len(inputs) : j < n /\ ConflictPair(inputs, i, j)

----------------------------------------------------------------------------
(* C6 *)

RECURSIVE ValuesOf(_, _)
\* the arguments that follow each occurrence of flag, in order
ValuesOf(args, flag) ==
  IF Len(args) < 2 THEN <<>>
  ELSE IF Head(args) = flag THEN <<args[2]>> \o ValuesOf(Tail(Tail(args)), flag)
  ELSE ValuesOf(Tail(args), flag)

\* the overrides that the surviving raw selections of a kind supply for a
\* track, the key compared after trimming
OverridesFor(inputs, kind, track_id) ==
  { inputs[i].track_langs[key] :
      <<i, key>> \in { p \in (1..Len(inputs)) \X LangKeys :
                         /\ Survives(inputs[p[1]])
                         /\ KindOf(inputs[p[1]]) = kind
                         /\ p[2] \in DOMAIN inputs[p[1]].track_langs
                         /\ Trim(p[2]) = track_id } }

\* C6: in every Stage 1 muxer invocation the --language arguments are, in
\* the order of the included track ids, '<id>:<override>' when a raw
\* selection of that kind supplied an override for the track (its key trimmed
\* like the track ids), and '<id>:<default of the kind>' otherwise.
C6_LanguageArguments ==
  \A c \in Calls :
    \A r \in 1..Len(calls[c].runs) :
      LET run == calls[c].runs[r]
          kind == run.stage
          ids == calls[c].kind_inputs[kind].track_ids
          langs == ValuesOf(run.args, <<"--language">>)
      IN kind # Combine =>
           /\ Len(langs) = Len(ids)
           /\ \A n \in 1..Len(ids) :
                LET overrides == OverridesFor(calls[c].inputs, kind, ids[n])
                IN IF overrides # {}
                     THEN \E lang \in overrides : langs[n] = ids[n] \o <<":">> \o lang
                     ELSE langs[n] = ids[n] \o <<":">> \o LangForKind(kind)

----------------------------------------------------------------------------
(* C7 *)

\* C7 as claimed: planning fails with ConflictingSourceForKind whenever two
\* surviving selections of the same kind name different source paths.
C7_ConflictWhenever ==
  \A c \in Calls :
    (Planned(c) /\ \E i, j \in 1..Len(calls[c].inputs) : ConflictPair(calls[c].inputs, i, j))
      => ReturnedErr(c, {"ConflictingSourceForKind"})

\* C7: planning fails with ConflictingSourceForKind whenever two surviving
\* selections of the same kind name different source paths and every raw
\* selection before the later of the two has a non-empty source path that
\* exists; the call then created no temporary directory.
C7_ConflictUnlessSourceMissingFirst ==
  \A c \in Calls :
    Planned(c) =>
      \A i, j \in 1..Len(calls[c].inputs) :
        (/\ ConflictPair(calls[c].inputs, i, j)
         /\ \A m \in 1..(j - 1) : SourceOk(calls[c].inputs[m]))
          => /\ ReturnedErr(c, {"ConflictingSourceForKind"})
             /\ calls[c].examined <= j
             /\ calls[c].temp_root = None

\* two audio selections with different sources and no video selection at all
C7_Witness ==
  \E c \in Calls :
    /\ ReturnedErr(c, {"ConflictingSourceForKind"})
    /\ Len(calls[c].inputs) = 2
    /\ \A i \in 1..2 : KindOf(calls[c].inputs[i]) = kAudio
    /\ ConflictPair(calls[c].inputs, 1, 2)

----------------------------------------------------------------------------
(* C8 *)

\* C8: when planning ran on a non-empty request in which every source path is
\* non-empty and exists and no two surviving selections of one kind differ in
\* source path, it fails with MissingVideoTrack exactly when no surviving
\* selection has kind video; the call then has created no temporary
\* directory and has spawned no muxer.
C8_MissingVideoTrack ==
  \A c \in Calls :
    LET inputs == calls[c].inputs
        clean == /\ inputs # <<>>
                 /\ \A i \in 1..Len(inputs) : SourceOk(inputs[i])
                 /\ ~ConflictBefore(inputs, Len(inputs) + 1)
        video == \E i \in 1..Len(inputs) : Survives(inputs[i]) /\ KindOf(inputs[i]) = kVideo
    IN /\ (Planned(c) /\ clean /\ ~video) =>
            /\ ReturnedErr(c, {"MissingVideoTrack"})
            /\ calls[c].pc = "failed"
            /\ calls[c].temp_root = None
            /\ calls[c].created \subseteq {PathParent(calls[c].output)[1]}
            /\ calls[c].runs = <<>>
       /\ ReturnedErr(c, {"MissingVideoTrack"}) => (clean /\ ~video)

\* the only video selection of the request has blank track ids only
C8_Witness ==
  \E c \in Calls :
    /\ ReturnedErr(c, {"MissingVideoTrack"})
    /\ \E i, j \in 1..Len(calls[c].inputs) :
         /\ KindOf(calls[c].inputs[i]) = kVideo
         /\ KindOf(calls[c].inputs[j]) = kAudio
         /\ Survives(calls[c].inputs[j])

----------------------------------------------------------------------------
(* C9 *)

\* C9: a call with an empty selection sequence fails with NoTracksProvided
\* and with nothing else: it looked up no tool, created no directory, spawned
\* no process and removed no file, also when the output directory is missing
\* and the tool is not installed.
C9_NoTracksProvided ==
  \A c \in Calls :
    (calls[c].inputs = <<>> /\ calls[c].pc \notin {"idle", "enter"}) =>
      /\ calls[c].pc = "failed"
      /\ ReturnedErr(c, {"NoTracksProvided"})
      /\ calls[c].mkvmerge_path = None
      /\ calls[c].created = {}
      /\ calls[c].runs = <<>>
      /\ calls[c].removed = <<>>

\* an empty request failed while the tool is not installed and the output
\* directory does not exist
C9_Witness ==
  \E c \in Calls :
    /\ calls[c].inputs = <<>>
    /\ ReturnedErr(c, {"NoTracksProvided"})
    /\ InstalledMkvmerge \notin files
    /\ PathParent(calls[c].output_path)[1] \notin dirs

----------------------------------------------------------------------------
(* C10 *)

\* the first raw selection whose source path is empty or does not exist
FirstMissing(inputs, i) ==
  /\ i \in 1..Len(inputs)
  /\ ~SourceOk(inputs[i])
  /\ \A m \in 1..(i - 1) : SourceOk(inputs[m])

\* C10 as claimed: the first selection whose source path is empty or missing
\* makes planning fail with SourceMissing, and no later selection is examined.
C10_FirstMissingFails ==
  \A c \in Calls :
    Planned(c) =>
      \A i \in 1..Len(calls[c].inputs) :
        FirstMissing(calls[c].inputs, i) =>
          /\ ReturnedErr(c, {"SourceMissing"})
          /\ calls[c].examined = i

\* C10: the first selection whose source path is empty or missing makes
\* planning fail with SourceMissing, whatever its kind and track ids, and no
\* later selection is examined, unless two surviving selections before it
\* have the same kind and different source paths.
C10_FirstMissingUnlessConflictFirst ==
  \A c \in Calls :
    Planned(c) =>
      \A i \in 1..Len(calls[c].inputs) :
        (FirstMissing(calls[c].inputs, i) /\ ~ConflictBefore(calls[c].inputs, i)) =>
          /\ ReturnedErr(c, {"SourceMissing"})
          /\ calls[c].examined = i

\* the second of three selections names a file that does not exist and has
\* blank track ids only
C10_Witness ==
  \E c \in Calls :
    /\ ReturnedErr(c, {"SourceMissing"})
    /\ Len(calls[c].inputs) = 3
    /\ calls[c].examined = 2
    /\ ~IsBlank(calls[c].inputs[2].path)
    /\ ~HasTrackId(calls[c].inputs[2])

----------------------------------------------------------------------------
(* C11 *)

PlanningErrors == {"SourceMissing", "ConflictingSourceForKind", "MissingVideoTrack"}

\* the planning loop of the call has run and returned no error
PlanOk(c) == Planned(c) /\ ~ReturnedErr(c, PlanningErrors)

\* a raw selection with an existing source path and no non-blank track id
Skipped(sel) == SourceOk(sel) /\ ~HasTrackId(sel)

SurvivorsOf(inputs, kind) ==
  { i \in 1..Len(inputs) : Survives(inputs[i]) /\ KindOf(inputs[i]) = kind }

\* C11: a raw selection with an existing source path and no non-blank track
\* id is skipped without error and contributes nothing: a request of existing
\* sources whose surviving selections hold a video selection and no two
\* sources for one kind plans without error; every entry of the plan and
\* every language override of an entry comes from a surviving selection of
\* that kind; and ConflictingSourceForKind is returned only for two
\* surviving selections.
C11_SkippedContributesNothing ==
  \A c \in Calls :
    LET inputs == calls[c].inputs
    IN Planned(c) =>
         /\ (/\ \A i \in 1..Len(inputs) : SourceOk(inputs[i])
             /\ SurvivorsOf(inputs, kVideo) # {}
             /\ ~ConflictBefore(inputs, Len(inputs) + 1)) => PlanOk(c)
         /\ PlanOk(c) =>
              \A kind \in DOMAIN calls[c].kind_inputs :
                /\ SurvivorsOf(inputs, kind) # {}
                /\ \A key \in DOMAIN calls[c].kind_inputs[kind].track_langs :
                     \E i \in SurvivorsOf(inputs, kind) :
                       /\ key \in DOMAIN inputs[i].track_langs
                       /\ inputs[i].track_langs[key] = calls[c].kind_inputs[kind].track_langs[key]
         /\ ReturnedErr(c, {"ConflictingSourceForKind"}) =>
              \E i, j \in 1..Len(inputs) : ConflictPair(inputs, i, j)

\* a plan of the video of source a, made from a request that also held a
\* blank-only video selection of source b and a blank-only audio selection,
\* both with a language override
C11_Witness ==
  \E c \in Calls :
    LET inputs == calls[c].inputs
    IN /\ PlanOk(c)
       /\ DOMAIN calls[c].kind_inputs = {kVideo}
       /\ calls[c].kind_inputs[kVideo].path = SourceA
       /\ \E i, j \in 1..Len(inputs) :
            /\ Skipped(inputs[i]) /\ KindOf(inputs[i]) = kVideo
            /\ inputs[i].path = SourceB
            /\ DOMAIN inputs[i].track_langs \cap DOMAIN calls[c].kind_inputs[kVideo].track_langs = {}
            /\ Skipped(inputs[j]) /\ KindOf(inputs[j]) = kAudio
            /\ inputs[j].track_langs # EmptyMap

----------------------------------------------------------------------------
(* C12 *)

\* the trimmed non-blank ids of a raw track-id list, in order
NonBlankTrimmed(ids) ==
  SelectSeq([i \in 1..Len(ids) |-> Trim(ids[i])], LAMBDA id : id # <<>>)

RECURSIVE IdsOfKind(_, _)
\* the trimmed non-blank ids of the surviving selections of a kind, in input order
IdsOfKind(inputs, kind) ==
  IF inputs = <<>> THEN <<>>
  ELSE (IF Survives(Head(inputs)) /\ KindOf(Head(inputs)) = kind
          THEN NonBlankTrimmed(Head(inputs).track_ids) ELSE <<>>)
       \o IdsOfKind(Tail(inputs), kind)

RECURSIVE FirstOccurrences(_)
\* s with every element removed after its first occurrence
FirstOccurrences(s) ==
  IF s = <<>> THEN <<>>
  ELSE LET front == SubSeq(s, 1, Len(s) - 1)
       IN IF \E i \in 1..Len(front) : front[i] = s[Len(s)]
            THEN FirstOccurrences(front)
            ELSE Append(FirstOccurrences(front), s[Len(s)])

\* the surviving selections of a kind that carry an override for key
Carriers(inputs, kind, key) ==
  { i \in SurvivorsOf(inputs, kind) : key \in DOMAIN inputs[i].track_langs }

Last(S) == CHOOSE i \in S : \A j \in S : j <= i

\* C12: when planning succeeds the plan has an entry for exactly the kinds of
\* the surviving selections; an entry's track ids are the trimmed non-blank
\* ids of the surviving selections of its kind, concatenated in input order,
\* with every id removed after its first occurrence (non-empty, no
\* duplicates); its overrides have the keys of those selections, each with the
\* value of the last surviving selection of the kind that carries the key.
C12_ConsolidatedSelection ==
  \A c \in Calls :
    LET inputs == calls[c].inputs
        plan == calls[c].kind_inputs
    IN PlanOk(c) =>
         /\ DOMAIN plan = { KindOf(inputs[i]) : i \in { n \in 1..Len(inputs) : Survives(inputs[n]) } }
         /\ \A kind \in DOMAIN plan :
              /\ plan[kind].track_ids = FirstOccurrences(IdsOfKind(inputs, kind))
              /\ plan[kind].track_ids # <<>>
              /\ \A m, n \in 1..Len(plan[kind].track_ids) :
                   m # n => plan[kind].track_ids[m] # plan[kind].track_ids[n]
              /\ DOMAIN plan[kind].track_langs =
                   UNION { DOMAIN inputs[i].track_langs : i \in SurvivorsOf(inputs, kind) }
              /\ \A key \in DOMAIN plan[kind].track_langs :
                   plan[kind].track_langs[key] =
                     inputs[Last(Carriers(inputs, kind, key))].track_langs[key]

\* three video selections gave the ids 1, 2, 3, an id being repeated with
\* surrounding blanks, and the override of 2 was given twice with different
\* values
C12_Witness ==
  \E c \in Calls :
    LET inputs == calls[c].inputs
    IN /\ PlanOk(c)
       /\ kVideo \in DOMAIN calls[c].kind_inputs
       /\ calls[c].kind_inputs[kVideo].track_ids = << <<"1">>, <<"2">>, <<"3">> >>
       /\ Len(IdsOfKind(inputs, kVideo)) > 3
       /\ \E i, j \in Carriers(inputs, kVideo, <<"2">>) :
            /\ i < j
            /\ inputs[i].track_langs[<<"2">>] # inputs[j].track_langs[<<"2">>]
            /\ calls[c].kind_inputs[kVideo].track_langs[<<"2">>] = inputs[j].track_langs[<<"2">>]

----------------------------------------------------------------------------
(* C13 *)

RECURSIVE CommaJoined(_)
CommaJoined(ids) ==
  IF Len(ids) <= 1 THEN (IF ids = <<>> THEN <<>> ELSE ids[1])
  ELSE ids[1] \o <<",">> \o CommaJoined(Tail(ids))

SelectorFlag(kind) ==
  CASE kind = kVideo -> <<"--video-tracks">>
    [] kind = kAudio -> <<"--audio-tracks">>
    [] kind = kSubtitle -> <<"--subtitle-tracks">>

ArtifactName(kind) ==
  CASE kind = kVideo -> kVideo \o <<".", "mkv">>
    [] kind = kAudio -> kAudio \o <<".", "mka">>
    [] kind = kSubtitle -> kSubtitle \o <<".", "mks">>

\* the language of a track of the consolidated selection: its consolidated
\* override, else the default of the kind
ResolvedLang(entry, kind, id) ==
  IF id \in DOMAIN entry.track_langs THEN entry.track_langs[id]
  ELSE IF kind = kSubtitle THEN <<"zh-Hans">> ELSE <<"ja">>

\* C13: the argument list of every Stage 1 muxer invocation for kind K is
\* -o, <tempdir>/<K>.<ext>, the selector flag of K with the comma-joined
\* consolidated ids, the two other selector flags each with -1, then for each
\* consolidated id in order --track-name '<id>:', --default-track-flag
\* '<id>:yes', --forced-display-flag '<id>:no', --language '<id>:<lang>', and
\* last the source path.
C13_Stage1Arguments ==
  \A c \in Calls :
    \A r \in 1..Len(calls[c].runs) :
      LET args == calls[c].runs[r].args
          kind == calls[c].runs[r].stage
          entry == calls[c].kind_inputs[kind]
          ids == entry.track_ids
      IN kind # Combine =>
           /\ kind \in {kVideo, kAudio, kSubtitle}
           /\ Len(args) = 8 + 8 * Len(ids) + 1
           /\ args[1] = <<"-o">>
           /\ args[2] = calls[c].temp_root[1] \o <<"/">> \o ArtifactName(kind)
           /\ args[3] = SelectorFlag(kind)
           /\ args[4] = CommaJoined(ids)
           /\ {args[5], args[7]} = { SelectorFlag(k) : k \in {kVideo, kAudio, kSubtitle} \ {kind} }
           /\ args[6] = <<"-1">> /\ args[8] = <<"-1">>
           /\ \A n \in 1..Len(ids) :
                LET at == 8 + 8 * (n - 1)
                IN /\ args[at + 1] = <<"--track-name">>
                   /\ args[at + 2] = ids[n] \o <<":">>
                   /\ args[at + 3] = <<"--default-track-flag">>
                   /\ args[at + 4] = ids[n] \o <<":", "yes">>
                   /\ args[at + 5] = <<"--forced-display-flag">>
                   /\ args[at + 6] = ids[n] \o <<":", "no">>
                   /\ args[at + 7] = <<"--language">>
                   /\ args[at + 8] = ids[n] \o <<":">> \o ResolvedLang(entry, kind, ids[n])
           /\ args[Len(args)] = entry.path

\* a call ran Stage 1 for video, audio and subtitle, the subtitle build with
\* two ids of which the second has an override
C13_Witness ==
  \E c \in Calls :
    /\ Len(calls[c].runs) >= 3
    /\ calls[c].runs[3].stage = kSubtitle
    /\ calls[c].runs[3].args[4] = <<"1", ",", "2">>
    /\ calls[c].runs[3].args[16] = <<"1", ":", "zh-Hans">>
    /\ calls[c].runs[3].args[24] = <<"2", ":", "en">>
    /\ Len(calls[c].kind_inputs[kVideo].track_ids) = 2

----------------------------------------------------------------------------
(* C14 *)

\* the kinds whose Stage 1 muxer of the call exited with status zero
BuiltKinds(c) ==
  { kind \in {kVideo, kAudio, kSubtitle} :
      \E i \in RunsOf(c, kind) : calls[c].runs[i].status = "ok" }

ArtifactsInOrder(c) ==
  LET artifact(kind) ==
        IF kind \in BuiltKinds(c)
          THEN << calls[c].temp_root[1] \o <<"/">> \o ArtifactName(kind) >>
          ELSE <<>>
  IN artifact(kVideo) \o artifact(kAudio) \o artifact(kSubtitle)

\* C14: the arguments of the combine invocation are -o, the final output
\* path (the caller's path, with the extension mkv appended when it has
\* none), then the artifacts of exactly the kinds built in Stage 1 of the
\* call in the order video, audio, subtitle, the video artifact first.
C14_CombineArguments ==
  \A c \in Calls :
    \A r \in RunsOf(c, Combine) :
      LET args == calls[c].runs[r].args
          final == IF PathExtension(calls[c].output_path) = None
                     THEN calls[c].output_path \o <<".", "mkv">>
                     ELSE calls[c].output_path
      IN /\ args = << <<"-o">>, final >> \o ArtifactsInOrder(c)
         /\ args[3] = calls[c].temp_root[1] \o <<"/">> \o ArtifactName(kVideo)

----------------------------------------------------------------------------
(* C15 *)

\* Validating, BuildingVideo, BuildingAudio, BuildingSubtitle, Combining,
\* CleaningUp, Done and Failed are numbered 0 to 7.  Between two builds the
\* call is in the stage it entered last.
StageOf(call) ==
  CASE call.pc \in {"idle", "enter", "mkdir", "tool", "plan", "temp"} -> 0
    [] call.pc = "stage1" ->
         LET upto == { j \in 1..call.k : Stage1Kinds[j] \in DOMAIN call.kind_inputs }
         IN IF upto = {} THEN 0 ELSE CHOOSE j \in upto : \A i \in upto : i <= j
    [] call.pc = "combine" -> 4
    [] call.pc = "cleanup" -> 5
    [] call.pc = "done" -> 6
    [] call.pc = "failed" -> 7

\* the stages a call visits: a build stage only if its kind is selected
StagesToVisit(call) ==
  {0, 4, 5, 6} \cup { j \in 1..Len(Stage1Kinds) : Stage1Kinds[j] \in DOMAIN call.kind_inputs }

NextStage(call) ==
  LET later == { s \in StagesToVisit(call) : s > StageOf(call) }
  IN CHOOSE s \in later : \A t \in later : s <= t

HasReturned(c) ==
  /\ Len(calls[c].returned) = 1
  /\ \/ calls[c].pc = "done" /\ calls[c].returned[1] = Ok(calls[c].output)
     \/ calls[c].pc = "failed" /\ calls[c].returned[1].tag = "Err"

\* a call moves only to the next stage it has to visit, or to Failed
C15_StageOrder ==
  \A c \in Calls :
    \/ StageOf(calls'[c]) = StageOf(calls[c])
    \/ /\ StageOf(calls[c]) < 6
       /\ StageOf(calls'[c]) \in {NextStage(calls[c]), 7}

\* the muxer processes of a call are in the order of the stages, one per
\* stage at most, and Stage 1 processes only for selected kinds
C15_OneProcessPerStage ==
  \A c \in Calls :
    LET stage(i) == IF calls[c].runs[i].stage = Combine THEN 4
                    ELSE CHOOSE j \in 1..Len(Stage1Kinds) : Stage1Kinds[j] = calls[c].runs[i].stage
    IN /\ \A i \in 1..Len(calls[c].runs) : stage(i) \in StagesToVisit(calls[c])
       /\ \A i, j \in 1..Len(calls[c].runs) : i < j => stage(i) < stage(j)
       /\ Running(calls[c]) => StageOf(calls[c]) = stage(Len(calls[c].runs))

\* C15: every invoked mix call eventually returns, Done with the final
\* output path or Failed with an error, provided every muxer process it
\* spawns terminates; it visits Validating, BuildingVideo, BuildingAudio (if
\* selected), BuildingSubtitle (if selected), Combining, CleaningUp and Done
\* in this order, entering no stage twice, with one muxer process per stage.
C15_ReturnsInStageOrder ==
  /\ \A c \in Calls : (calls[c].pc # "idle") ~> HasReturned(c)
  /\ []C15_OneProcessPerStage
  /\ [][C15_StageOrder]_vars

\* a call that built video, audio and subtitle has returned the output path
C15_Witness ==
  \E c \in Calls :
    /\ calls[c].pc = "done"
    /\ HasReturned(c)
    /\ Len(calls[c].runs) = 4
    /\ calls[c].output_path = <<"o">>

----------------------------------------------------------------------------
(* Vocabulary of the probe properties *)

\* the probe has run up to its await or its return
ProbeStarted == probe.pc \in {"await", "done", "failed"}

ProbeReturnedErr(errors) ==
  /\ probe.pc = "failed"
  /\ Len(probe.returned) = 1
  /\ probe.returned[1].tag = "Err"
  /\ probe.returned[1].error \in errors

\* the extension of the path is mkv, mka or mks in any mix of cases
MatroskaNamed(path) ==
  /\ PathExtension(path) # None
  /\ \E ext \in { <<"m", "k", "v">>, <<"m", "k", "a">>, <<"m", "k", "s">> } :
       /\ Len(PathExtension(path)[1]) = 3
       /\ \A i \in 1..3 : PathExtension(path)[1][i] \in {ext[i], ToUppercase(ext)[i]}

\* the analyzer is among the bundled tools
Bundled(tool) == PathJoin(ResourceBin, tool) \in files

MkvmergeInvocations ==
  { i \in 1..Len(probe.runs) :
      probe.runs[i].tool = Mkvmerge /\ probe.runs[i].args = << <<"-J">>, probe.path >> }

FfprobeInvocations ==
  { i \in 1..Len(probe.runs) :
      /\ probe.runs[i].tool = Ffprobe
      /\ probe.runs[i].args[Len(probe.runs[i].args)] = probe.path }

----------------------------------------------------------------------------
(* C16 *)

----------------------------------------------------------------------------
(* C17 *)

\* the tracks of the probe result
ProbeTracks == probe.returned[1].value.tracks

\* C17: every Track of every probe result has a non-empty codec string,
\* whatever the report of the backend holds.
C17_CodecNeverEmpty ==
  probe.pc = "done" =>
    \A i \in 1..Len(ProbeTracks) : ProbeTracks[i].codec # ""

----------------------------------------------------------------------------
(* C18 *)

HasPrefix(s, p) == Len(s) >= Len(p) /\ \A i \in 1..Len(p) : s[i] = p[i]

\* the code trimmed and lowercased
Normalized(code) == ToLowercase(Trim(code))

\* the fixed table: the codes of one group share one display name
LanguageGroups ==
  { { <<"j","a">>, <<"j","p","n">> }, { <<"e","n">>, <<"e","n","g">> },
    { <<"z","h">>, <<"c","h","i">>, <<"z","h","o">> },
    { <<"z","h","-","c","n">>, <<"c","h","s">>, <<"c","m","n">> },
    { <<"z","h","-","t","w">>, <<"c","h","t">> }, { <<"k","o">>, <<"k","o","r">> },
    { <<"f","r">>, <<"f","r","a">> }, { <<"d","e">>, <<"d","e","u">>, <<"g","e","r">> },
    { <<"e","s">>, <<"s","p","a">> } }

SimplifiedCode(n) == HasPrefix(n, <<"z","h","-","h","a","n","s">>)

TraditionalCode(n) ==
  \/ HasPrefix(n, <<"z","h","-","h","a","n","t">>)
  \/ HasPrefix(n, <<"z","h","-","h","k">>)
  \/ HasPrefix(n, <<"z","h","-","m","o">>)

\* C18: the display name of a track is a function of its language code
\* trimmed and lowercased: two codes equal after that have the same display
\* name; a code starting with zh-hans has Simplified Chinese, one starting
\* with zh-hant, zh-hk or zh-mo Traditional Chinese; otherwise the codes of
\* one group of the fixed table have one display name (Simplified Chinese
\* for zh-cn/chs/cmn, Traditional Chinese for zh-tw/cht), and every other
\* code has none.
C18_DisplayLanguage ==
  probe.pc = "done" =>
    /\ Len(ProbeTracks) = 2
    /\ \A i \in 1..2 :
         LET n == Normalized(ProbeTracks[i].lang[1])
             name == ProbeTracks[i].language_name
         IN /\ SimplifiedCode(n) => name = Some("Simplified Chinese")
            /\ (~SimplifiedCode(n) /\ TraditionalCode(n)) => name = Some("Traditional Chinese")
            /\ (~SimplifiedCode(n) /\ ~TraditionalCode(n)) =>
                 /\ name # None <=> \E g \in LanguageGroups : n \in g
                 /\ n \in { <<"z","h","-","c","n">>, <<"c","h","s">>, <<"c","m","n">> }
                      => name = Some("Simplified Chinese")
                 /\ n \in { <<"z","h","-","t","w">>, <<"c","h","t">> }
                      => name = Some("Traditional Chinese")
    /\ LET n1 == Normalized(ProbeTracks[1].lang[1])
           n2 == Normalized(ProbeTracks[2].lang[1])
           same == \/ n1 = n2
                   \/ \E g \in LanguageGroups : n1 \in g /\ n2 \in g
                   \/ SimplifiedCode(n1) /\ SimplifiedCode(n2)
                   \/ /\ ~SimplifiedCode(n1) /\ TraditionalCode(n1)
                      /\ ~SimplifiedCode(n2) /\ TraditionalCode(n2)
       IN same => ProbeTracks[1].language_name = ProbeTracks[2].language_name

\* ZH-HANS-CN in capitals and chs with surrounding blanks both gave
\* Simplified Chinese
C18_Witness ==
  /\ probe.pc = "done"
  /\ ProbeTracks[1].lang = Some(<<"Z","H","-","H","A","N","S","-","C","N">>)
  /\ ProbeTracks[2].lang = Some(<<" ", "c","h","s", "\t">>)
  /\ ProbeTracks[1].language_name = Some("Simplified Chinese")
  /\ ProbeTracks[2].language_name = Some("Simplified Chinese")

----------------------------------------------------------------------------
(* C19 *)

\* the text the size query returned
SizeText == sizing.returned[1].value[1]

\* the position of the most significant digit of a length in base 1024
TopDigit(len) ==
  IF \A i \in 1..Len(len) : len[i] = 0 THEN 1
  ELSE CHOOSE i \in 1..Len(len) : len[i] # 0 /\ \A j \in (i + 1)..Len(len) : len[j] = 0

\* a text with two decimals and the unit, its integer part being whole or,
\* when the decimals round up to it, the next integer
TwoDecimals(text, whole, unit) ==
  \E n \in {whole, whole + 1}, tenths \in 0..9, hundredths \in 0..9 :
    text = ToString(n) \o "." \o ToString(tenths) \o ToString(hundredths) \o " " \o unit

\* C19: the size text is 0 B for 0, 1023 B for 1023, 1.00 KB for 1024 and
\* 1.00 MB for 1048576; a length of at least 2^40 is written with TB, and a
\* length below 2^40 with the unit whose index is the number of divisions by
\* 1024 that bring it under 1024: the plain number of bytes at index 0, two
\* decimals above.
C19_UnitSelection ==
  sizing.pc = "done" =>
    LET len == media.len
        divisions == TopDigit(len) - 1
    IN /\ len = <<0, 0, 0, 0, 0, 0>> => SizeText = "0 B"
       /\ len = <<1023, 0, 0, 0, 0, 0>> => SizeText = "1023 B"
       /\ len = <<0, 1, 0, 0, 0, 0>> => SizeText = "1.00 KB"
       /\ len = <<0, 0, 1, 0, 0, 0>> => SizeText = "1.00 MB"
       /\ divisions >= 4 => TwoDecimals(SizeText, len[5] + 1024 * len[6], "TB")
       /\ divisions = 3 => TwoDecimals(SizeText, len[4], "GB")
       /\ divisions = 2 => TwoDecimals(SizeText, len[3], "MB")
       /\ divisions = 1 => TwoDecimals(SizeText, len[2], "KB")
       /\ divisions = 0 => SizeText = ToString(len[1]) \o " B"

\* a length of 7 * 2^50 and more was written in TB, with 8191 before the point
C19_Witness ==
  /\ sizing.pc = "done"
  /\ media.len = <<512, 1023, 1023, 1, 1023, 7>>
  /\ SizeText = "8191.00 TB"

----------------------------------------------------------------------------
(* C20 *)

\* what the analyzer a probe ran gives for the file
AnalyzerOutput == IF probe.runs[1].tool = Mkvmerge THEN media.mkvmerge ELSE media.ffprobe

\* the probe ran its analyzer and the analyzer ended this way
AnalyzerEnded(status) == Len(probe.runs) = 1 /\ probe.runs[1].status = status

\* a probe that failed has returned one error and no tracks
NoTracksOnFailure ==
  probe.pc = "failed" =>
    /\ Len(probe.returned) = 1
    /\ probe.returned[1].tag = "Err"

\* the error of a spawn failure and the error of an undecodable report
SpawnAndDecodeErrors ==
  /\ AnalyzerEnded("spawn_failed") => ProbeReturnedErr({"ToolSpawnFailed"})
  /\ (AnalyzerEnded("ok") /\ AnalyzerOutput.stdout = None) =>
       ProbeReturnedErr({"OutputParseFailed"})

----------------------------------------------------------------------------
(* C21 *)

\* the tool a probe asked resolve for
AskedTool == IF MatroskaNamed(probe.path) THEN Mkvmerge ELSE Ffprobe

\* the candidates of a directory that exist, the name with the executable
\* suffix counting only on Windows
ExistingIn(dir, name) ==
  { p \in { PathJoin(dir, name) } \cup
          (IF build.windows THEN { PathJoin(dir, name \o <<".exe">>) } ELSE {}) :
      p \in files \cup dirs }

\* the path resolve is to return: of the packaged directory if one of its
\* candidates exists, else, in development mode, of the development
\* directory; within a directory, the name with the suffix first
PreferredIn(dir, name) ==
  IF PathJoin(dir, name \o <<".exe">>) \in ExistingIn(dir, name)
    THEN PathJoin(dir, name \o <<".exe">>)
    ELSE PathJoin(dir, name)

Packaged == <<"resources", "/", "bin">>
Development == <<"..", "/", "public", "/", "tools">>

----------------------------------------------------------------------------
(* C22 *)

ClaimedWhitespace == {" ", "\t", "\n"}

NeedsQuotes(arg) == \E i \in 1..Len(arg) : arg[i] \in ClaimedWhitespace \cup {"\""}

RECURSIVE BackslashEscaped(_)
BackslashEscaped(arg) ==
  IF arg = <<>> THEN <<>>
  ELSE IF Head(arg) = "\"" THEN <<"\\", "\"">> \o BackslashEscaped(Tail(arg))
  ELSE <<Head(arg)>> \o BackslashEscaped(Tail(arg))

Rendered(arg) ==
  IF NeedsQuotes(arg) THEN <<"\"">> \o BackslashEscaped(arg) \o <<"\"">> ELSE arg

RECURSIVE AfterTheWord(_)
AfterTheWord(args) ==
  IF args = <<>> THEN <<>>
  ELSE <<" ">> \o Rendered(Head(args)) \o AfterTheWord(Tail(args))

\* the muxer process whose non-zero exit failed the call
FailedMuxer(c) == calls[c].runs[Len(calls[c].runs)]

MuxerFailed(c) ==
  /\ calls[c].runs # <<>>
  /\ FailedMuxer(c).status = "exit_nonzero"

\* C22: the command line in the error of a failed muxer is the word
\* mkvmerge followed by the arguments of the invocation in their order, an
\* argument holding a whitespace character or a double quote wrapped in
\* double quotes with each inner double quote backslash-escaped and any
\* other argument as it is; the process ran on the argument vector, whose
\* last stage-1 argument is the source path of the kind as it is.
C22_DiagnosticCommandLine ==
  \A c \in Calls :
    MuxerFailed(c) =>
      /\ ReturnedErr(c, {"ToolExitedNonZero"})
      /\ calls[c].returned[1].value = <<"mkvmerge">> \o AfterTheWord(FailedMuxer(c).args)
      /\ FailedMuxer(c).stage # <<"combine">> =>
           FailedMuxer(c).args[Len(FailedMuxer(c).args)] =
             calls[c].kind_inputs[FailedMuxer(c).stage].path

----------------------------------------------------------------------------
(* C23 *)

\* numbers beyond 32 bits: three 16-bit digits, the lowest first
Wide(a) == <<a[1], a[2], 0>>

AddWide(a, b) ==
  LET d1 == a[1] + b[1]
      d2 == a[2] + b[2] + d1 \div 65536
      d3 == a[3] + b[3] + d2 \div 65536
  IN <<d1 % 65536, d2 % 65536, d3>>

LessWide(a, b) ==
  \/ a[3] < b[3]
  \/ a[3] = b[3] /\ a[2] < b[2]
  \/ a[3] = b[3] /\ a[2] = b[2] /\ a[1] < b[1]

\* max(reported limit, 50)
Step(i) ==
  LET limit == fetch.log[i].response.limit
  IN IF limit[2] = 0 /\ limit[1] < 50 THEN <<50, 0, 0>> ELSE Wide(limit)

RECURSIVE AdvancedOffset(_)
\* the offset advanced after the i-th response, as a number
AdvancedOffset(i) == IF i = 0 THEN <<0, 0, 0>> ELSE AddWide(AdvancedOffset(i - 1), Step(i))

\* the i-th response is one after which the loop is to stop
StopsAfter(i) ==
  \/ fetch.log[i].response.data = <<>>
  \/ ~LessWide(AdvancedOffset(i), Wide(fetch.log[i].response.total))

Answered(i) == i >= 1 /\ fetch.log[i].response.failure = ""

\* ceil(total / 50), and one request for a total of 0
MostRequests(total) == IF total = 0 THEN 1 ELSE (total + 49) \div 50

\* C23: a paginated loop stops exactly after the first response whose page
\* is empty or after which the offset, advanced by max(reported limit, 50)
\* per request, is at least the reported total; hence it makes at most
\* ceil(total/50) requests, one when the total is 0.
C23_LoopStops ==
  fetch.pc # "idle" =>
    LET requests == Len(fetch.log)
    IN /\ \A i \in 1..(requests - 1) : ~StopsAfter(i)
       /\ fetch.pc = "done" => StopsAfter(requests)
       /\ (Answered(requests) /\ StopsAfter(requests)) => fetch.pc # "request"
       /\ server.total[2] = 0 => requests <= MostRequests(server.total[1])

----------------------------------------------------------------------------
(* C30 *)

\* the items fetch_month_subjects returned
FetchedItems == fetch.returned[1].value.items

\* C30: against a paged server fetch_month_subjects returns each of the
\* total items exactly once and in the order of the server, whatever the
\* page size of the server.
C30_EachItemOnce ==
  (server.kind = "paged" /\ fetch.pc = "done") =>
    /\ Len(FetchedItems) = server.total[1]
    /\ \A i \in 1..Len(FetchedItems) : FetchedItems[i].id = i - 1

----------------------------------------------------------------------------
(* C24 *)

\* the commands that got a handle from torrent_api
Proceeded == { c \in TorrentCommands : torrent.commands[c].api # None }

\* the commands torrent_api failed
InitFailed ==
  { c \in TorrentCommands :
      torrent.commands[c].pc = "failed" /\ torrent.commands[c].api = None }

\* the commands that ran the initialiser
Initialisers == { c \in TorrentCommands : torrent.commands[c].attempted }

\* C24: the session is constructed at most once; every command that
\* proceeds holds the one handle that was constructed; a command fails in
\* torrent_api only when the initialiser it ran itself failed, and while no
\* session is constructed and no initialiser runs the cell is empty and its
\* permit free, so that the next command runs the initialiser again.
C24_OneSharedSession ==
  /\ torrent.sessions <= 1
  /\ \A c \in Proceeded : torrent.sessions = 1 /\ torrent.commands[c].api = Some(1)
  /\ \A c, d \in Proceeded : torrent.commands[c].api = torrent.commands[d].api
  /\ InitFailed \subseteq Initialisers
  /\ Cardinality({ c \in TorrentCommands : torrent.commands[c].pc = "session" }) <= 1
  /\ (torrent.sessions = 0 /\ \A c \in TorrentCommands : torrent.commands[c].pc # "session")
       => (torrent.cell = None /\ torrent.permit = "free")

\* the initialiser of t1 failed, t2 ran it again and constructed the
\* session, and t3 proceeded on that session without running it
C24_Witness ==
  /\ torrent.commands["t1"].pc = "failed" /\ torrent.commands["t1"].attempted
  /\ torrent.commands["t1"].api = None
  /\ torrent.commands["t2"].attempted /\ torrent.commands["t2"].api = Some(1)
  /\ ~torrent.commands["t3"].attempted /\ torrent.commands["t3"].pc = "done"
  /\ torrent.commands["t3"].api = Some(1)
  /\ torrent.sessions = 1

----------------------------------------------------------------------------
(* C25 *)

ValidationErrors == {"SourceMissing", "ConflictingSourceForKind", "MissingVideoTrack"}

\* C25: a call that failed with an input-validation error has created no
\* directory, neither a parent of the output path nor a temporary one, has
\* written and removed no file, and has spawned no process.
C25_ValidationFailureLeavesNoTrace ==
  \A c \in Calls :
    ReturnedErr(c, ValidationErrors) =>
      /\ calls[c].created = {}
      /\ calls[c].temp_root = None
      /\ calls[c].temp_files = <<>>
      /\ calls[c].removed = <<>>
      /\ calls[c].runs = <<>>

----------------------------------------------------------------------------
(* C26 *)

MainKinds == { <<"v", "i", "d", "e", "o">>, <<"a", "u", "d", "i", "o">>,
               <<"s", "u", "b", "t", "i", "t", "l", "e">> }

\* the selections of a request whose kind, lowercased, is none of the three
OtherSelections(c) ==
  { i \in 1..Len(calls[c].inputs) : ToLowercase(calls[c].inputs[i].kind) \notin MainKinds }

Stage1Runs(c) ==
  { i \in 1..Len(calls[c].runs) : calls[c].runs[i].stage # <<"combine">> }

CombineRuns(c) ==
  { i \in 1..Len(calls[c].runs) : calls[c].runs[i].stage = <<"combine">> }

\* the sources of the selections of a kind
SourcesOf(c, kind) ==
  { calls[c].inputs[i].path :
      i \in { j \in 1..Len(calls[c].inputs) : ToLowercase(calls[c].inputs[j].kind) = kind } }

Mentions(arg, word) == \E i \in 1..Len(arg) : arg[i] = word

\* a selection of another kind is accepted: a request of selections of one
\* existing source with a video selection among them returns no validation
\* error
OtherKindsAccepted(c) ==
  ( /\ calls[c].pc # "idle"
    /\ \A i \in 1..Len(calls[c].inputs) : calls[c].inputs[i].path = <<"a">>
    /\ SourcesOf(c, <<"v", "i", "d", "e", "o">>) # {} )
    => ~ReturnedErr(c, {"SourceMissing", "ConflictingSourceForKind", "MissingVideoTrack"})

\* every Stage 1 invocation is for one of the three kinds and reads a
\* source of a selection of that kind, there are at most three of them, and
\* the combine stage gets at most the three artifacts of these kinds
OnlyMainKindsRun(c) ==
  /\ Cardinality(Stage1Runs(c)) <= 3
  /\ \A i \in Stage1Runs(c) :
       LET run == calls[c].runs[i]
       IN /\ run.stage \in MainKinds
          /\ run.args[Len(run.args)] \in SourcesOf(c, run.stage)
  /\ \A i \in CombineRuns(c) :
       LET run == calls[c].runs[i]
       IN /\ Len(run.args) <= 5
          /\ \A n \in 3..Len(run.args) :
               \E kind \in MainKinds, ext \in {"mkv", "mka", "mks"} :
                 run.args[n] = calls[c].temp_root[1] \o <<"/">> \o kind \o <<".", ext>>

\* the selections of a kind that override a language with und
OverridesWithUnd(c, kind) ==
  { i \in 1..Len(calls[c].inputs) :
      /\ ToLowercase(calls[c].inputs[i].kind) = kind
      /\ \E id \in DOMAIN calls[c].inputs[i].track_langs :
           calls[c].inputs[i].track_langs[id] = <<"und">> }

\* C26 as claimed: a selection of another kind than video, audio or
\* subtitle is accepted without error, causes no Stage 1 invocation and
\* contributes nothing to the combine stage; there are at most three Stage 1
\* invocations and no argument of a muxer invocation holds the language und.
C26_UndNeverPassed ==
  \A c \in Calls :
    /\ OtherKindsAccepted(c)
    /\ OnlyMainKindsRun(c)
    /\ \A i \in 1..Len(calls[c].runs) :
         \A n \in 1..Len(calls[c].runs[i].args) : ~Mentions(calls[c].runs[i].args[n], "und")

\* C26 as amended: the same, the language und being passed to the muxer
\* only in a Stage 1 invocation for a kind of which a selection overrides a
\* language with und.
C26_OtherKindsIgnored ==
  \A c \in Calls :
    /\ OtherKindsAccepted(c)
    /\ OnlyMainKindsRun(c)
    /\ \A i \in 1..Len(calls[c].runs) :
         \A n \in 1..Len(calls[c].runs[i].args) :
           Mentions(calls[c].runs[i].args[n], "und") =>
             /\ calls[c].runs[i].stage \in MainKinds
             /\ OverridesWithUnd(c, calls[c].runs[i].stage) # {}

\* a call with a chapters selection of another source than its video,
\* audio and subtitle selections ran three Stage 1 invocations and returned
\* the output
C26_Witness ==
  /\ calls["c1"].pc = "done"
  /\ \E i \in OtherSelections("c1") : calls["c1"].inputs[i].path = <<"b">>
  /\ Cardinality(Stage1Runs("c1")) = 3
  /\ Cardinality(CombineRuns("c1")) = 1
  /\ Len(calls["c1"].runs[4].args) = 5

----------------------------------------------------------------------------
(* C27 *)

\* the entries of the watchlist file as load_tracked reads them
StoredEntries == [i \in 1..Len(store.file.items) |-> FromJsonObject(store.file.items[i])]

StoredSet == { StoredEntries[i] : i \in 1..Len(StoredEntries) }

StoredIds == { entry.id : entry \in StoredSet }

\* there was a save and every save so far returned Ok
OnlySuccessfulSaves == store.saves > 0 /\ ~store.failed

Tracked(subject) == subject.watching \/ subject.backlog \/ subject.watched

\* the command returned the stored set, each entry once
ReturnedTheStoredSet ==
  /\ store.returned # None
  /\ store.returned[1].tag = "Ok"
  /\ LET list == store.returned[1].value
     IN /\ { list[i] : i \in 1..Len(list) } = StoredSet
        /\ Len(list) = Cardinality(StoredSet)

\* C27: from an absent, blank or well-formed watchlist file, after saves that
\* all succeeded the file is an array with at most one entry per id; an id
\* that was saved is present exactly when its last save had one of watching,
\* backlog, watched true, and its entry is then that last saved subject; a
\* save returns the stored set, and so does a list that returns a value.
C27_WatchlistFollowsLastSave ==
  OnlySuccessfulSaves =>
    /\ store.file.exists /\ store.file.array
    /\ \A i, j \in 1..Len(StoredEntries) :
         StoredEntries[i].id = StoredEntries[j].id => i = j
    /\ \A id \in SubjectIds :
         store.last[id] # None =>
           /\ id \in StoredIds <=> Tracked(store.last[id][1])
           /\ id \in StoredIds => store.last[id][1] \in StoredSet
    /\ store.op = "save" => ReturnedTheStoredSet
    /\ (store.op = "list" /\ store.returned[1].tag = "Ok") => ReturnedTheStoredSet

\* a save with the three flags false removed the id 1, which the file held,
\* and left the id 2; a list then returned what is stored
C27_Witness ==
  /\ OnlySuccessfulSaves
  /\ store.op = "list"
  /\ ReturnedTheStoredSet
  /\ 1 \in store.had
  /\ store.last[1] # None
  /\ ~Tracked(store.last[1][1])
  /\ StoredIds = {2}

----------------------------------------------------------------------------
(* C28 *)

Finalized == Len(folders.returned) > 0

LastFinalize == folders.returned[Len(folders.returned)]

\* what a folder holds on a disk, by kind
HeldIn(disk, dir) ==
  Disk({ path \in disk.files : Within(path, dir) }, { path \in disk.dirs : Within(path, dir) })

\* everything below the temp folder before the call is below the final
\* folder after it, a file as a file and a directory as a directory
TempEntriesInFinal ==
  LET temp_path == folders.temp_folder
      final_path == folders.final_folder
  IN /\ \A path \in folders.before.files :
          (Within(path, temp_path) /\ path # temp_path) =>
            Moved(path, temp_path, final_path) \in folders.disk.files
     /\ \A path \in folders.before.dirs :
          (Within(path, temp_path) /\ path # temp_path) =>
            Moved(path, temp_path, final_path) \in folders.disk.dirs

\* the call before the last one returned Ok
FinalizedBefore ==
  /\ Len(folders.returned) > 1
  /\ folders.returned[Len(folders.returned) - 1].tag = "Ok"

\* C28: finalize_torrent_download returns Ok and changes nothing when the
\* temp folder does not exist; after a call that returned Ok every entry of
\* the temp folder is in the final folder and the temp folder is gone; the
\* call after a call that returned Ok returns Ok and leaves the final folder
\* as it was; when a move fails, the entries moved before it are in the
\* final folder and the temp folder is still there.
C28_FinalizeIdempotent ==
  Finalized =>
    /\ folders.temp_folder \notin Entries(folders.before) =>
         LastFinalize.tag = "Ok" /\ folders.disk = folders.before
    /\ (LastFinalize.tag = "Ok" /\ folders.temp_folder \in Entries(folders.before)) =>
         TempEntriesInFinal /\ folders.temp_folder \notin Entries(folders.disk)
    /\ FinalizedBefore =>
         /\ LastFinalize.tag = "Ok"
         /\ HeldIn(folders.disk, folders.final_folder)
              = HeldIn(folders.before, folders.final_folder)
    /\ LastFinalize.error = "MoveFailed" =>
         /\ folders.temp_folder \in folders.disk.dirs
         /\ \A i \in 1..Len(folders.moved) :
              Moved(folders.moved[i], folders.temp_folder, folders.final_folder)
                \in Entries(folders.disk)

----------------------------------------------------------------------------
(* C29 *)

\* the tag matches this official name, or matches no official name and is
\* an alias of it, after trim and lowercase on both sides
MatchesName(tag, name) == ToLowercase(Trim(tag)) = ToLowercase(Trim(name))

MapsTo(tag, name, official, aliases) ==
  \/ \E i \in 1..Len(official) : official[i] = name /\ MatchesName(tag, official[i])
  \/ /\ \A i \in 1..Len(official) : ~MatchesName(tag, official[i])
     /\ \E i \in 1..Len(aliases) : aliases[i][2] = name /\ MatchesName(tag, aliases[i][1])

\* the position of the first tag that maps to the name
FirstTag(name, official, aliases) ==
  CHOOSE k \in 1..Len(tagging.tags) :
    /\ MapsTo(tagging.tags[k], name, official, aliases)
    /\ \A j \in 1..(k - 1) : ~MapsTo(tagging.tags[j], name, official, aliases)

NoDuplicates(list) == \A i, j \in 1..Len(list) : list[i] = list[j] => i = j

\* every element is the name some tag maps to, and the elements are in the
\* order of the first such tags
FromTagsInOrder(list, official, aliases) ==
  /\ \A i \in 1..Len(list) :
       \E k \in 1..Len(tagging.tags) : MapsTo(tagging.tags[k], list[i], official, aliases)
  /\ \A i, j \in 1..Len(list) :
       i < j => FirstTag(list[i], official, aliases) < FirstTag(list[j], official, aliases)

AllOfficial(list, official) ==
  \A i \in 1..Len(list) : \E n \in 1..Len(official) : official[n] = list[i]

WellMapped(list, official, aliases) ==
  /\ AllOfficial(list, official)
  /\ NoDuplicates(list)
  /\ FromTagsInOrder(list, official, aliases)

\* C29: with the type, region and audience tables of get_subject_filters,
\* every element map_tags_to_official returns is in the official list it was
\* given, no element is returned twice, the elements are in the order of the
\* first tags that map to them, and a tag that matches no official name and
\* no alias after trim and lowercase adds nothing.
C29_MappedTagsAreOfficial ==
  tagging.pc = "done" =>
    /\ WellMapped(tagging.types, OFFICIAL_TYPES, TYPE_ALIASES)
    /\ WellMapped(tagging.regions, OFFICIAL_REGIONS, REGION_ALIASES)
    /\ WellMapped(tagging.audiences, OFFICIAL_AUDIENCES, AUDIENCE_ALIASES)

====
